---------------------------- MODULE Spec2Model ----------------------------
(***************************************************************************)
(* Dialogue orchestration engine of the health-insurance CSO chatbot       *)
(* (src/streamlit_app.py): text normalisation, entity extraction, intent   *)
(* classification, slot filling over Session Memory (memo), the routing    *)
(* graph supervisor -> requirements -> {rs | nasabah | polis} -> decision  *)
(* -> compose, and the lookup adapters against the external stores.        *)
(*                                                                         *)
(* Text is modelled as TLA+ strings, character by character: keyword tests *)
(* are substring searches, regular expressions are matched on characters.  *)
(***************************************************************************)
EXTENDS Integers, Sequences, FiniteSets, TLC

(***************************************************************************)
(* Python's None, for the optional string-valued slots.                    *)
(***************************************************************************)
None == "<None>"

(* Python truthiness of an optional string. *)
Truthy(v) == v /= None /\ v /= ""

(* Python's `a or b` on optional strings. *)
Or(a, b) == IF Truthy(a) THEN a ELSE b

(* Strict(e, F) is F(e), with e evaluated once and then bound to F's       *)
(* parameter (a Python local variable holding the value of e).             *)
Strict(e, F(_)) == CHOOSE r \in {F(v) : v \in {e}} : TRUE

(* min(S) of a non-empty set of integers. *)
Min(S) == CHOOSE i \in S : \A j \in S : i <= j

(***************************************************************************)
(* Characters                                                              *)
(***************************************************************************)
UpperSet == {"A","B","C","D","E","F","G","H","I","J","K","L","M",
             "N","O","P","Q","R","S","T","U","V","W","X","Y","Z"}

LowerSet == {"a","b","c","d","e","f","g","h","i","j","k","l","m",
             "n","o","p","q","r","s","t","u","v","w","x","y","z"}

DigitSet == {"0","1","2","3","4","5","6","7","8","9"}

SpaceSet == {" "}

ToUpperMap == [a |-> "A", b |-> "B", c |-> "C", d |-> "D", e |-> "E", f |-> "F",
               g |-> "G", h |-> "H", i |-> "I", j |-> "J", k |-> "K", l |-> "L",
               m |-> "M", n |-> "N", o |-> "O", p |-> "P", q |-> "Q", r |-> "R",
               s |-> "S", t |-> "T", u |-> "U", v |-> "V", w |-> "W", x |-> "X",
               y |-> "Y", z |-> "Z"]

ToLowerMap == [A |-> "a", B |-> "b", C |-> "c", D |-> "d", E |-> "e", F |-> "f",
               G |-> "g", H |-> "h", I |-> "i", J |-> "j", K |-> "k", L |-> "l",
               M |-> "m", N |-> "n", O |-> "o", P |-> "p", Q |-> "q", R |-> "r",
               S |-> "s", T |-> "t", U |-> "u", V |-> "v", W |-> "w", X |-> "x",
               Y |-> "y", Z |-> "z"]

UpChar(c) == IF c \in LowerSet THEN ToUpperMap[c] ELSE c

LowChar(c) == IF c \in UpperSet THEN ToLowerMap[c] ELSE c

(* \w of Python's re on the model's alphabet. *)
IsWordChar(c) == c \in UpperSet \/ c \in LowerSet \/ c \in DigitSet \/ c = "_"

(***************************************************************************)
(* Strings                                                                 *)
(***************************************************************************)
(* s[i-1] of Python, or "" outside the string. *)
CharAt(s, i) == IF i >= 1 /\ i <= Len(s) THEN SubSeq(s, i, i) ELSE ""

(* Python's `k in t`. *)
Contains(t, k) == \E i \in 1..(Len(t) - Len(k) + 1) : SubSeq(t, i, i + Len(k) - 1) = k

(* any(k in t for k in ks) *)
ContainsAny(t, ks) == \E k \in ks : Contains(t, k)

(* str.upper() and str.lower(), character by character; the string is     *)
(* halved at each step so that long texts stay within the evaluator's      *)
(* recursion depth.                                                        *)
RECURSIVE Upper(_)
Upper(s) ==
  IF Len(s) <= 1 THEN UpChar(s)
  ELSE LET h == Len(s) \div 2
       IN  Upper(SubSeq(s, 1, h)) \o Upper(SubSeq(s, h + 1, Len(s)))

RECURSIVE Lower(_)
Lower(s) ==
  IF Len(s) <= 1 THEN LowChar(s)
  ELSE LET h == Len(s) \div 2
       IN  Lower(SubSeq(s, 1, h)) \o Lower(SubSeq(s, h + 1, Len(s)))

RECURSIVE LStrip(_)
LStrip(s) == IF s /= "" /\ Head(s) \in SpaceSet THEN LStrip(Tail(s)) ELSE s

RECURSIVE RStrip(_)
RStrip(s) ==
  IF s /= "" /\ CharAt(s, Len(s)) \in SpaceSet THEN RStrip(SubSeq(s, 1, Len(s) - 1)) ELSE s

(* str.strip() *)
Strip(s) == RStrip(LStrip(s))

(* str.replace(old, new): every non-overlapping occurrence, left to right. *)
RECURSIVE Replace(_, _, _)
Replace(s, old, new) ==
  IF Len(s) < Len(old) THEN s
  ELSE IF SubSeq(s, 1, Len(old)) = old
       THEN new \o Replace(SubSeq(s, Len(old) + 1, Len(s)), old, new)
       ELSE Head(s) \o Replace(Tail(s), old, new)

(* str.split(): the maximal runs of non-whitespace characters. *)
RECURSIVE SplitFrom(_, _)
SplitFrom(s, cur) ==
  IF s = "" THEN (IF cur = "" THEN <<>> ELSE <<cur>>)
  ELSE IF Head(s) \in SpaceSet
       THEN (IF cur = "" THEN <<>> ELSE <<cur>>) \o SplitFrom(Tail(s), "")
       ELSE SplitFrom(Tail(s), cur \o Head(s))

Split(s) == SplitFrom(s, "")

(* " ".join(toks) *)
RECURSIVE Join(_)
Join(toks) ==
  IF toks = <<>> THEN ""
  ELSE IF Len(toks) = 1 THEN toks[1]
       ELSE toks[1] \o " " \o Join(Tail(toks))

(* " ".join(s.split()) without the final strip: every run of whitespace     *)
(* becomes one blank.                                                      *)
RECURSIVE Squeeze(_)
Squeeze(s) ==
  IF Len(s) <= 1 THEN s
  ELSE LET h == Len(s) \div 2
           l == Squeeze(SubSeq(s, 1, h))
           r == Squeeze(SubSeq(s, h + 1, Len(s)))
       IN  IF CharAt(l, Len(l)) \in SpaceSet /\ CharAt(r, 1) \in SpaceSet
           THEN l \o Tail(r) ELSE l \o r

(* " ".join(s.split()) *)
CollapseSpaces(s) == Strip(Squeeze(s))

(* str.capitalize(): first character upper-cased, the rest lower-cased. *)
Capitalize(s) == IF s = "" THEN "" ELSE UpChar(Head(s)) \o Lower(Tail(s))

(* s[:n] *)
Prefix(s, n) == IF Len(s) <= n THEN s ELSE SubSeq(s, 1, n)

(* The regular expression assertion \b at the gap before s[pos] (1..Len+1). *)
IsBoundary(s, pos) ==
  LET before == pos > 1 /\ IsWordChar(CharAt(s, pos - 1))
      after  == pos <= Len(s) /\ IsWordChar(CharAt(s, pos))
  IN  before /= after

(* re.search(r"\bw\b", s) for a literal word w. *)
HasWord(s, w) ==
  \E i \in 1..(Len(s) - Len(w) + 1) :
     /\ SubSeq(s, i, i + Len(w) - 1) = w
     /\ IsBoundary(s, i)
     /\ IsBoundary(s, i + Len(w))

(***************************************************************************)
(* UTIL                                                                    *)
(***************************************************************************)
(* norm(x) = str(x or "").strip() *)
norm(x) == IF x = None THEN "" ELSE Strip(x)

(* low(x) = norm(x).lower() *)
low(x) == Lower(norm(x))

(* compact(s) = re.sub(r"[^A-Z0-9]", "", (s or "").upper()) *)
RECURSIVE KeepAlnumUpper(_)
KeepAlnumUpper(s) ==
  IF Len(s) <= 1 THEN (IF s \in UpperSet \/ s \in DigitSet THEN s ELSE "")
  ELSE LET h == Len(s) \div 2
       IN  KeepAlnumUpper(SubSeq(s, 1, h)) \o KeepAlnumUpper(SubSeq(s, h + 1, Len(s)))

(* compact without the re.sub: the token is only upper-cased. *)
CompactUpperOnly(s) == Upper(IF s = None THEN "" ELSE s)

compact(s) == KeepAlnumUpper(Upper(IF s = None THEN "" ELSE s))

(***************************************************************************)
(* similar(a, b) = SequenceMatcher(None, a.lower(), b.lower()).ratio()     *)
(* The ratio is 2*M/T: M the characters in matching blocks, T the total    *)
(* length.  It is kept as the exact fraction <<2*M, T>>.                   *)
(***************************************************************************)
(* Length of the common run of a from i and b from j. *)
RECURSIVE CommonRun(_, _, _, _)
CommonRun(a, i, b, j) ==
  IF i > Len(a) \/ j > Len(b) \/ CharAt(a, i) /= CharAt(b, j) THEN 0
  ELSE 1 + CommonRun(a, i + 1, b, j + 1)

(* find_longest_match: <<i, j, k>>, the longest block a[i..i+k) = b[j..j+k), *)
(* of those the one starting earliest in a, then earliest in b.             *)
LongestMatch(a, b) ==
  LET blocks == {<<i, j, CommonRun(a, i, b, j)>> : i \in 1..Len(a), j \in 1..Len(b)}
      sizes  == {x[3] : x \in blocks}
      kmax   == CHOOSE k \in sizes : \A k2 \in sizes : k >= k2
      starts == {x[1] : x \in {y \in blocks : y[3] = kmax}}
      imin   == CHOOSE i \in starts : \A i2 \in starts : i <= i2
      bs     == {x[2] : x \in {y \in blocks : y[3] = kmax /\ y[1] = imin}}
      jmin   == CHOOSE j \in bs : \A j2 \in bs : j <= j2
  IN  IF blocks = {} THEN <<1, 1, 0>> ELSE <<imin, jmin, kmax>>

(* get_matching_blocks: total size of the blocks found by recursing to the *)
(* left and to the right of the longest one.                               *)
RECURSIVE MatchCount(_, _)
MatchCount(a, b) ==
  IF a = "" \/ b = "" THEN 0
  ELSE LET m == LongestMatch(a, b)
       IN  IF m[3] = 0 THEN 0
           ELSE m[3]
                + MatchCount(SubSeq(a, 1, m[1] - 1), SubSeq(b, 1, m[2] - 1))
                + MatchCount(SubSeq(a, m[1] + m[3], Len(a)), SubSeq(b, m[2] + m[3], Len(b)))

similar(a, b) ==
  LET al == Lower(a)
      bl == Lower(b)
  IN  IF Len(al) + Len(bl) = 0 THEN <<1, 1>>
      ELSE <<2 * MatchCount(al, bl), Len(al) + Len(bl)>>

(* Comparison of two ratios, and of a ratio with the threshold 0.66. *)
RatioGT(x, y) == x[1] * y[2] > y[1] * x[2]

SIM_THRESHOLD_PCT == 66

RatioOK(x) == x[1] * 100 >= SIM_THRESHOLD_PCT * x[2]

(* The cashless flag as it is stored, without the mapping to Ya / Tidak. *)
CashlessAsStored(v) == norm(v)

cashless_to_ya_tidak(v) ==
  LET s == low(v)
  IN  IF s \in {"ya", "y", "true", "1"} THEN "Ya"
      ELSE IF s \in {"tidak", "t", "no", "false", "0"} THEN "Tidak"
      ELSE "-"

(***************************************************************************)
(* parse_date_any: dates are <<year, month, day>>, NoDate for None.        *)
(***************************************************************************)
NoDate == <<>>

DigitVal(c) == CHOOSE n \in 0..9 : CharAt("0123456789", n + 1) = c

AllDigits(s) == s /= "" /\ \A i \in 1..Len(s) : CharAt(s, i) \in DigitSet

RECURSIVE ToInt(_)
ToInt(s) == IF s = "" THEN 0 ELSE 10 * ToInt(SubSeq(s, 1, Len(s) - 1)) + DigitVal(CharAt(s, Len(s)))

IsLeap(y) == (y % 4 = 0 /\ y % 100 /= 0) \/ y % 400 = 0

DaysIn(y, m) ==
  IF m = 2 THEN (IF IsLeap(y) THEN 29 ELSE 28)
  ELSE IF m \in {4, 6, 9, 11} THEN 30 ELSE 31

(* date(y, m, d) raises unless the date exists. *)
ValidDate(y, m, d) == y >= 1 /\ m \in 1..12 /\ d >= 1 /\ d <= DaysIn(y, m)

(* Positions of the separator character sep in s. *)
SepPositions(s, sep) == {i \in 1..Len(s) : CharAt(s, i) = sep}

(* datetime.strptime(s, f) for a format of three numeric fields joined by  *)
(* the separator sep: %Y is four digits, %m and %d one or two digits.  On  *)
(* a blank the format matches any run of whitespace.  yearFirst tells      *)
(* %Y-%m-%d from %d-%m-%Y.  NoDate when strptime raises.                   *)
Strptime(s, sep, yearFirst) ==
  LET seps == SepPositions(s, sep)
      splits == {pq \in seps \X seps :
                   /\ pq[1] < pq[2]
                   /\ \A k \in (pq[1] + 1)..(pq[2] - 1) :
                         (CharAt(s, k) = sep) => sep = " "
                   /\ AllDigits(SubSeq(s, 1, pq[1] - 1))
                   /\ AllDigits(LStrip(SubSeq(s, pq[1] + 1, pq[2] - 1)))
                   /\ AllDigits(LStrip(SubSeq(s, pq[2] + 1, Len(s))))
                   /\ (sep /= " " => pq[2] > pq[1] + 1)}
  IN  IF splits = {} THEN NoDate
      ELSE LET pq == CHOOSE x \in splits : TRUE
               f1 == SubSeq(s, 1, pq[1] - 1)
               f2 == LStrip(SubSeq(s, pq[1] + 1, pq[2] - 1))
               f3 == LStrip(SubSeq(s, pq[2] + 1, Len(s)))
               ys == IF yearFirst THEN f1 ELSE f3
               ds == IF yearFirst THEN f3 ELSE f1
           IN  IF /\ Len(ys) = 4 /\ Len(f2) \in 1..2 /\ Len(ds) \in 1..2
                  /\ (sep /= " " => (f2 = SubSeq(s, pq[1] + 1, pq[2] - 1)
                                      /\ f3 = SubSeq(s, pq[2] + 1, Len(s))))
                  /\ ValidDate(ToInt(ys), ToInt(f2), ToInt(ds))
               THEN <<ToInt(ys), ToInt(f2), ToInt(ds)>>
               ELSE NoDate

(* re.search(r"(\d{4})[-/](\d{2})[-/](\d{2})", s): the leftmost match. *)
LooseDate(s) ==
  LET ok(i) == /\ AllDigits(SubSeq(s, i, i + 3))
               /\ CharAt(s, i + 4) \in {"-", "/"}
               /\ AllDigits(SubSeq(s, i + 5, i + 6))
               /\ CharAt(s, i + 7) \in {"-", "/"}
               /\ AllDigits(SubSeq(s, i + 8, i + 9))
      at == {i \in 1..(Len(s) - 9) : ok(i)}
  IN  IF at = {} THEN NoDate
      ELSE LET i == CHOOSE i \in at : \A j \in at : i <= j
               y == ToInt(SubSeq(s, i, i + 3))
               m == ToInt(SubSeq(s, i + 5, i + 6))
               d == ToInt(SubSeq(s, i + 8, i + 9))
           IN  IF ValidDate(y, m, d) THEN <<y, m, d>> ELSE NoDate

(* The formats tried, in order: separator and whether the year comes first. *)
DATE_FORMATS == << <<"-", TRUE>>, <<"-", FALSE>>, <<"/", FALSE>>,
                   <<"/", TRUE>>, <<" ", FALSE>>, <<".", TRUE>> >>

parse_date_any(v) ==
  LET s == norm(v)
      parsed == [i \in 1..Len(DATE_FORMATS) |->
                   Strptime(s, DATE_FORMATS[i][1], DATE_FORMATS[i][2])]
      good == {i \in 1..Len(DATE_FORMATS) : parsed[i] /= NoDate}
  IN  IF s = "" THEN NoDate
      ELSE IF good /= {} THEN parsed[CHOOSE i \in good : \A j \in good : i <= j]
      ELSE LooseDate(s)

(* date.isoformat() *)
Pad2(n) == CharAt("0123456789", (n \div 10) + 1) \o CharAt("0123456789", (n % 10) + 1)

IsoFormat(d) == Pad2(d[1] \div 100) \o Pad2(d[1] % 100) \o "-" \o Pad2(d[2]) \o "-" \o Pad2(d[3])

(* end_dt > today: the last day of the policy counts as expired. *)
DateGT(a, b) ==
  \/ a[1] > b[1]
  \/ a[1] = b[1] /\ a[2] > b[2]
  \/ a[1] = b[1] /\ a[2] = b[2] /\ a[3] > b[3]

(* end_dt >= today *)
DateGE(a, b) ==
  \/ a[1] > b[1]
  \/ a[1] = b[1] /\ a[2] > b[2]
  \/ a[1] = b[1] /\ a[2] = b[2] /\ a[3] >= b[3]

normalize_reimburse_words(text) ==
  LET t0 == low(text)
      t1 == Replace(t0, "rembures", "reimburse")
      t2 == Replace(t1, "reimbures", "reimburse")
      t3 == Replace(t2, "remburse", "reimburse")
      t4 == Replace(t3, "reimburs", "reimburse")
  IN  Replace(t4, "reimbus", "reimburse")

(***************************************************************************)
(* ENTITY EXTRACTION                                                       *)
(***************************************************************************)
KNOWN_CITIES == <<"jakarta", "bandung", "surabaya", "medan", "semarang",
                  "yogyakarta", "makassar", "denpasar">>

(* Number of consecutive characters of s from position i that lie in set,  *)
(* counted up to cap: how far a greedy character-class quantifier reaches. *)
RECURSIVE RunLen(_, _, _, _)
RunLen(s, i, set, cap) ==
  IF cap = 0 \/ i > Len(s) \/ CharAt(s, i) \notin set THEN 0
  ELSE 1 + RunLen(s, i + 1, set, cap - 1)

(* [\s\-]* between positions from and to-1. *)
AllSpaceOrDash(s, from, to) ==
  \A k \in from..(to - 1) : CharAt(s, k) \in SpaceSet \/ CharAt(s, k) = "-"

(* re.search(rf"(?:\bdi[\s\-]*|^){c}\b", t) or re.search(rf"\b{c}\b", t) *)
CityMatches(t, c) ==
  \/ \E j \in 1..(Len(t) - Len(c) + 1) :
        /\ SubSeq(t, j, j + Len(c) - 1) = c
        /\ IsBoundary(t, j + Len(c))
        /\ \/ j = 1
           \/ \E p \in 1..(j - 2) :
                 /\ SubSeq(t, p, p + 1) = "di"
                 /\ IsBoundary(t, p)
                 /\ AllSpaceOrDash(t, p + 2, j)
  \/ HasWord(t, c)

extract_city(text) ==
  LET t == low(text)
      hits == {i \in 1..Len(KNOWN_CITIES) : CityMatches(t, KNOWN_CITIES[i])}
  IN  IF hits /= {}
      THEN Capitalize(KNOWN_CITIES[CHOOSE i \in hits : \A j \in hits : i <= j])
      ELSE IF Contains(t, "dki jakarta") THEN "Jakarta" ELSE None

(* Lexicographic order on the choices of a backtracking matcher: the match *)
(* Python returns is the greatest candidate, each greedy quantifier taking *)
(* as much as still lets the rest match.                                   *)
RECURSIVE LexGE(_, _)
LexGE(x, y) ==
  IF x = <<>> THEN TRUE
  ELSE IF Head(x) /= Head(y) THEN Head(x) > Head(y)
       ELSE LexGE(Tail(x), Tail(y))

(* Candidates <<a, d1, b, d2, c>> of [A-Z]{2,6}\-?\d{2,6}\-?\d{0,4}\b at i. *)
PolicyAlt1(s, i) ==
  UNION { UNION { UNION { UNION {
    { <<a, d1, b, d2, c>> :
        c \in {n \in 0..RunLen(s, i + a + d1 + b + d2, DigitSet, 4) :
                 IsBoundary(s, i + a + d1 + b + d2 + n)} }
    : d2 \in {d \in {0, 1} : d = 0 \/ CharAt(s, i + a + d1 + b) = "-"} }
    : b \in 2..RunLen(s, i + a + d1, DigitSet, 6) }
    : d1 \in {d \in {0, 1} : d = 0 \/ CharAt(s, i + a) = "-"} }
    : a \in 2..RunLen(s, i, UpperSet, 6) }

(* Lengths of \d{6,}\b at i. *)
PolicyAlt2(s, i) ==
  {n \in 6..RunLen(s, i, DigitSet, Len(s)) : IsBoundary(s, i + n)}

(* Length of the match of \b([A-Z]{2,6}\-?\d{2,6}\-?\d{0,4}|\d{6,})\b *)
(* starting at i, or 0 when there is none.                                 *)
PolicyMatchLen(s, i) ==
  IF ~IsBoundary(s, i) THEN 0
  ELSE LET c1 == PolicyAlt1(s, i)
           c2 == PolicyAlt2(s, i)
       IN  IF c1 /= {}
           THEN LET m == CHOOSE x \in c1 : \A y \in c1 : LexGE(x, y)
                IN  m[1] + m[2] + m[3] + m[4] + m[5]
           ELSE IF c2 /= {}
                THEN CHOOSE n \in c2 : \A k \in c2 : n >= k
                ELSE 0

(* re.search(...).group(1) on text.upper(): the leftmost match, or None. *)
PolicySearch(s) ==
  LET starts == {i \in 1..Len(s) : PolicyMatchLen(s, i) > 0}
  IN  IF starts = {} THEN None
      ELSE LET i == CHOOSE i \in starts : \A j \in starts : i <= j
           IN  SubSeq(s, i, i + PolicyMatchLen(s, i) - 1)

extract_entities(text) ==
  LET tl == Lower(text)
  IN  [no_polis   |-> PolicySearch(Upper(text)),
       kota       |-> extract_city(text),
       plan_asked |-> IF HasWord(tl, "platinum") THEN "Platinum"
                      ELSE IF HasWord(tl, "gold") THEN "Gold"
                      ELSE IF HasWord(tl, "silver") THEN "Silver"
                      ELSE None]

(***************************************************************************)
(* INTENT                                                                  *)
(***************************************************************************)
INTENTS == {"rs_search", "policy_status", "policy_plan_lookup", "cashless_policy",
            "limit_plan", "claim_requirements", "plan_benefit",
            "provide_policy_number", "unknown"}

FILLER_WORDS == {"klo", "kalau", "kalo", "ini", "itu", "ya", "yah", "deh", "dong",
                 "nih", "gimana", "maksudnya"}

(* re.sub(r"[^\w\s\-]", " ", t) *)
RECURSIVE PunctToSpace(_)
PunctToSpace(s) ==
  IF s = "" THEN ""
  ELSE IF Len(s) = 1
       THEN (IF IsWordChar(s) \/ s \in SpaceSet \/ s = "-" THEN s ELSE " ")
  ELSE LET h == Len(s) \div 2
       IN  PunctToSpace(SubSeq(s, 1, h)) \o PunctToSpace(SubSeq(s, h + 1, Len(s)))

extract_policy_like_text(user_text) ==
  Strict(PunctToSpace(low(user_text)), LAMBDA t :
    Join(SelectSeq(Split(t), LAMBDA x : x /= "" /\ x \notin FILLER_WORDS)))

(* detect_rs_mode looking for the bare cashless cue first. *)
DetectCashlessFirst(q) ==
  Strict(normalize_reimburse_words(q), LAMBDA t :
    IF Contains(t, "cashless") THEN "cashless"
    ELSE IF ContainsAny(t, {"gak cashless", "ga cashless", "tidak cashless", "non cashless",
                            "reimburse", "reimbursement", "refund"})
    THEN "non_cashless" ELSE None)

detect_rs_mode(q) ==
  Strict(normalize_reimburse_words(q), LAMBDA t :
    IF ContainsAny(t, {"gak cashless", "ga cashless", "tidak cashless", "non cashless",
                       "reimburse", "reimbursement", "refund"})
    THEN "non_cashless"
    ELSE IF Contains(t, "cashless") THEN "cashless" ELSE None)

is_policy_only_with_fillers(user_text, no_polis) ==
  Strict(compact(extract_policy_like_text(user_text)), LAMBDA core :
  Strict(compact(no_polis), LAMBDA pol :
    Contains(core, pol) /\ Len(core) <= Len(pol) + 2))

TIERS == {"silver", "gold", "platinum"}

(* The unguarded test: is_policy_only_with_fillers on whatever was extracted. *)
BarePolicyNumberUnguarded(q, ents) == is_policy_only_with_fillers(q, ents.no_polis)

(* ents.get("no_polis") and is_policy_only_with_fillers(q, ents["no_polis"]) *)
BarePolicyNumber(q, ents) ==
  Truthy(ents.no_polis) /\ is_policy_only_with_fillers(q, ents.no_polis)

(* The tests of classify_intent below its pending-slot test, in the order  *)
(* of the code, each with the intent it returns.                           *)
IntentRules(q, t, ents) ==
  << [intent |-> "provide_policy_number", hit |-> BarePolicyNumber(q, ents)],
     [intent |-> "plan_benefit",
      hit |-> /\ ContainsAny(t, {"manfaat plan", "benefit plan", "dapet apa", "dapat apa",
                                 "benefitnya", "manfaatnya"})
              /\ ContainsAny(t, TIERS)],
     [intent |-> "claim_requirements",
      hit |-> ContainsAny(t, {"persyaratan klaim", "syarat klaim", "dokumen klaim",
                              "cara klaim", "klaim", "claim", "reimburse", "reimbursement"})],
     [intent |-> "policy_status",
      hit |-> ContainsAny(t, {"masih hidup", "masih aktif", "aktif?", "status polis",
                              "polis saya aktif", "apakah masih aktif"})],
     [intent |-> "rs_search",
      hit |-> ContainsAny(t, {"rs", "rumah sakit", "rs rekanan", "rekomendasi rs"})],
     [intent |-> "policy_plan_lookup",
      hit |-> ContainsAny(t, {"plan apa", "termasuk plan", "plan saya", "masuk plan apa"})],
     [intent |-> "cashless_policy", hit |-> Contains(t, "cashless")],
     [intent |-> "limit_plan", hit |-> Contains(t, "limit") /\ ContainsAny(t, TIERS)] >>

(* The last test that holds decides. *)
LastMatch(rules) ==
  LET hits == {i \in 1..Len(rules) : rules[i].hit}
  IN  IF hits = {} THEN "unknown" ELSE rules[CHOOSE i \in hits : \A j \in hits : j <= i].intent

(* A chain without the final "return unknown": None when no test holds. *)
FirstMatchNoDefault(rules) ==
  LET hits == {i \in 1..Len(rules) : rules[i].hit}
  IN  IF hits = {} THEN None ELSE rules[Min(hits)].intent

(* The chain of "if ...: return ..." of classify_intent: the first test    *)
(* that holds decides, "unknown" when none does.                           *)
FirstMatch(rules) ==
  LET hits == {i \in 1..Len(rules) : rules[i].hit}
  IN  IF hits = {} THEN "unknown" ELSE rules[Min(hits)].intent

(* classify_intent below its pending-slot test: the keyword cascade. *)
classify_keywords(q) ==
  Strict(normalize_reimburse_words(q), LAMBDA t :
  Strict(extract_entities(q), LAMBDA ents :
  Strict(IntentRules(q, t, ents), LAMBDA rules : FirstMatch(rules))))

(* classify_intent(q), reading pending_slot and last_intent of the memo m. *)
(* classify_intent without the pending short-cut: keywords always decide. *)
ClassifyKeywordsOnly(q, m) == classify_keywords(q)

classify_intent(q, m) ==
  IF m.pending_slot /= None
  THEN (IF Truthy(m.last_intent) THEN m.last_intent ELSE "unknown")
  ELSE classify_keywords(q)

(* required_fields asking the policy intents for a city as well. *)
RequiredFieldsWithCity(intent) ==
  IF intent = "rs_search" THEN <<"kota">>
  ELSE IF intent \in {"policy_status", "policy_plan_lookup", "cashless_policy"}
       THEN <<"no_polis", "kota">>
  ELSE IF intent \in {"limit_plan", "plan_benefit"} THEN <<"plan_asked">>
  ELSE <<>>

required_fields(intent) ==
  IF intent = "rs_search" THEN <<"kota">>
  ELSE IF intent \in {"policy_status", "policy_plan_lookup", "cashless_policy"}
       THEN <<"no_polis">>
  ELSE IF intent \in {"limit_plan", "plan_benefit"} THEN <<"plan_asked">>
  ELSE <<>>

(***************************************************************************)
(* Payloads of the external stores: a record of the store is a dict, kept  *)
(* as the sequence of its <<key, value>> items in insertion order.         *)
(***************************************************************************)
(* None / absent, for the list- and dict-valued keys of the turn state. *)
Nil == <<>>

KV(key, val) == [k |-> key, v |-> val]

(* payload.get(key) *)
Get(pl, key) ==
  LET at == {i \in 1..Len(pl) : pl[i].k = key}
  IN  IF at = {} THEN None ELSE pl[CHOOSE i \in at : \A j \in at : i <= j].v


(***************************************************************************)
(* no_polis normalization                                                  *)
(***************************************************************************)
normalize_no_polis(raw) == IF ~Truthy(raw) THEN raw ELSE compact(raw)

(* Only the compacted form of the input. *)
VariantsCompactOnly(raw) == IF ~Truthy(raw) THEN {} ELSE {compact(raw)}

(* The set built by no_polis_variants; the list it returns is this set in  *)
(* the iteration order of a Python set of strings, which is not defined.   *)
no_polis_variants(raw) ==
  IF ~Truthy(raw) THEN {}
  ELSE LET raw_u == Upper(Strip(raw))
           c     == normalize_no_polis(raw_u)
           a     == RunLen(c, 1, UpperSet, Len(c))
           digits == SubSeq(c, a + 1, Len(c))
           m     == a >= 2 /\ a <= 6 /\ AllDigits(digits)
           prefix == SubSeq(c, 1, a)
           v7 == IF m /\ Len(digits) >= 7
                 THEN {prefix \o "-" \o SubSeq(digits, 1, 3) \o "-"
                         \o SubSeq(digits, 4, Len(digits)),
                       prefix \o digits}
                 ELSE {}
           v6 == IF m /\ Len(digits) >= 6
                 THEN {prefix \o "-" \o SubSeq(digits, 1, 2) \o "-"
                         \o SubSeq(digits, 3, Len(digits))}
                 ELSE {}
       IN  {v \in {raw_u, c} \cup v7 \cup v6 : v /= ""}

(* The orders in which a set can be listed. *)
Orders(S) == {q \in [1..Cardinality(S) -> S] : \A i, j \in DOMAIN q : i /= j => q[i] /= q[j]}

(***************************************************************************)
(* AUTO-FIND FIELD VALUE BY ALIAS                                          *)
(***************************************************************************)
(* The highest similarity of key k to any of the aliases. *)
RECURSIVE BestRatio(_, _)
BestRatio(k, aliases) ==
  IF aliases = <<>> THEN <<0, 1>>
  ELSE LET r    == similar(k, Head(aliases))
           rest == BestRatio(k, Tail(aliases))
       IN  IF RatioGT(r, rest) THEN r ELSE rest

(* The score of each key of the payload, in the payload's order. *)
RECURSIVE KeyScores(_, _)
KeyScores(payload, aliases) ==
  IF payload = <<>> THEN <<>>
  ELSE <<BestRatio(Head(payload).k, aliases)>> \o KeyScores(Tail(payload), aliases)

(* [key, val, score]: the first key of the payload with the highest score, *)
(* accepted at 0.66 or more; val is None when the value is empty.          *)
find_value_by_alias(payload, aliases) ==
  IF payload = Nil THEN [key |-> None, val |-> None, score |-> <<0, 1>>]
  ELSE Strict(KeyScores(payload, aliases), LAMBDA sc :
         LET top == {i \in 1..Len(payload) :
                       /\ RatioGT(sc[i], <<0, 1>>)
                       /\ \A j \in 1..Len(payload) : ~RatioGT(sc[j], sc[i])}
         IN  IF top = {} THEN [key |-> None, val |-> None, score |-> <<0, 1>>]
             ELSE LET b == Min(top)
                      val == payload[b].v
                  IN  IF RatioOK(sc[b])
                      THEN [key |-> payload[b].k,
                            val |-> IF val = None \/ norm(val) = "" THEN None ELSE val,
                            score |-> sc[b]]
                      ELSE [key |-> None, val |-> None, score |-> sc[b]])

(***************************************************************************)
(* The external stores (Qdrant collections nasabah, rs_rekanan, polis).    *)
(* Their content is data the program does not control; each query may      *)
(* also raise.                                                             *)
(***************************************************************************)
NasabahStore ==
  << <<KV("nomor_polis", "POL-2024"), KV("nama", "Budi"), KV("plan", "Gold"),
       KV("status_polis", "Aktif"), KV("metode_klaim", "Cashless")>>,
     <<KV("nomor_polis", "AB-1234"), KV("nama", "Sari"), KV("plan", ""),
       KV("tanggal_akhir", "2025-12-31"), KV("metode_klaim", "Reimburse")>>,
     <<KV("nomor_polis", "ZZ-9999"), KV("nama", "Tono")>>,
     <<KV("nomor_polis", "POL-002-2024"), KV("nama", "Wati"), KV("plan", "Silver")>> >>

(* Number of records of the partner-hospital collection. *)
NumRs == 16

RS_NAME_KEYS == <<"nama_rs", "nama", "rumah_sakit", "rs">>

(* Record i of rs_rekanan: the last two are in Jakarta, the others in      *)
(* Bandung; every fifth has no name, the others carry it under one of the  *)
(* four aliases; every third is not cashless.                              *)
RsRecord(i) ==
  LET city == IF i > NumRs - 2 THEN "Jakarta" ELSE "Bandung"
      flag == IF i % 3 = 0 THEN "Tidak" ELSE "Ya"
      name == "RS " \o CharAt("ABCDEFGHIJKLMNOPQRSTUVWXYZ", i)
  IN  IF i % 5 = 0
      THEN <<KV("kota", city), KV("cashless", flag), KV("nama_rs", "")>>
      ELSE <<KV(RS_NAME_KEYS[(i % 4) + 1], name), KV("kota", city), KV("cashless", flag)>>

RsStore == [i \in 1..NumRs |-> RsRecord(i)]

(* Result lists the semantic search over the polis collection may return. *)
PolisHits ==
  { <<>>,
    << <<KV("text", "Prosedur klaim: isi formulir klaim, lampirkan kwitansi dan resume medis"),
         KV("page", "12"), KV("source_file", "polis.pdf")>> >>,
    << <<KV("text", "BAB IV LIMIT DAN PLAN Gold Rp200 limit tahunan rawat inap"),
         KV("page", "7"), KV("source", "polis.pdf")>>,
       <<KV("page_content", "Manfaat plan Silver rawat jalan"), KV("page", "9")>> >>,
    << <<KV("text", "Ketentuan umum"), KV("page", "1"), KV("source_file", "polis.pdf")>>,
       <<KV("content", ""), KV("page", "2")>> >> }

(***************************************************************************)
(* TOOLS                                                                   *)
(***************************************************************************)
(* One call to an external store or service, as the environment sees it. *)
Call(store, op, arg, out) == [store |-> store, op |-> op, arg |-> arg, out |-> out]

(* client.scroll("nasabah", scroll_filter = key == v, limit = 1) *)
NasabahScroll(key, v) ==
  SelectSeq(NasabahStore, LAMBDA pl : Get(pl, key) = v)

(* The exact-match loop of tool_lookup_nasabah over tried[i..]; errs is    *)
(* the set of positions whose query raises.  Returns the payload found     *)
(* (Nil for none) and the queries issued.                                  *)
(* A loop that gives up at the first variant: one query, then out. *)
ExactLoopFirstOnly(key, tried, i, errs) ==
  IF i > Len(tried) THEN [nasabah |-> Nil, calls |-> <<>>]
  ELSE IF i \in errs
       THEN [nasabah |-> Nil, calls |-> <<Call("nasabah", "scroll", tried[i], "error")>>]
       ELSE Strict(NasabahScroll(key, tried[i]), LAMBDA hits :
              IF hits /= <<>> /\ hits[1] /= Nil
              THEN [nasabah |-> hits[1],
                    calls   |-> <<Call("nasabah", "scroll", tried[i], "hit")>>]
              ELSE [nasabah |-> Nil,
                    calls   |-> <<Call("nasabah", "scroll", tried[i], "miss")>>])

RECURSIVE ExactLoop(_, _, _, _)
ExactLoop(key, tried, i, errs) ==
  IF i > Len(tried) THEN [nasabah |-> Nil, calls |-> <<>>]
  ELSE IF i \in errs
       THEN Strict(ExactLoop(key, tried, i + 1, errs), LAMBDA rest :
              [nasabah |-> rest.nasabah,
               calls   |-> <<Call("nasabah", "scroll", tried[i], "error")>> \o rest.calls])
       ELSE Strict(NasabahScroll(key, tried[i]), LAMBDA hits :
              IF hits /= <<>> /\ hits[1] /= Nil
              THEN [nasabah |-> hits[1],
                    calls   |-> <<Call("nasabah", "scroll", tried[i], "hit")>>]
              ELSE Strict(ExactLoop(key, tried, i + 1, errs), LAMBDA rest :
                     [nasabah |-> rest.nasabah,
                      calls   |-> <<Call("nasabah", "scroll", tried[i], "miss")>>
                                  \o rest.calls]))

(* What the semantic fallback may do: raise (embedding or query), return   *)
(* no point, or return some record of the collection as its nearest point. *)
SemanticOutcomes == {"error", "empty"} \cup {"top1", "top2", "top3"}

SemanticTop(sem) ==
  IF sem = "top1" THEN NasabahStore[1]
  ELSE IF sem = "top2" THEN NasabahStore[2]
  ELSE IF sem = "top3" THEN NasabahStore[3]
  ELSE Nil

(* A lookup that accepts the nearest record only when it carries one of    *)
(* the variants tried.                                                     *)
ToolLookupVerified(no_polis_raw, m, tried, errs, sem) ==
  LET key   == Or(m.nasabah_key_no_polis, "no_polis")
      qcall == Call("nasabah", "query_points", normalize_no_polis(no_polis_raw), sem)
  IN  Strict(ExactLoop(key, tried, 1, errs), LAMBDA exact :
        IF exact.nasabah /= Nil
        THEN [found |-> TRUE, nasabah |-> exact.nasabah, tried |-> tried,
              key_used |-> key, raised |-> FALSE, calls |-> exact.calls]
        ELSE IF /\ SemanticTop(sem) /= Nil
                /\ \E i \in 1..Len(tried) : tried[i] = Get(SemanticTop(sem), key)
             THEN [found |-> TRUE, nasabah |-> SemanticTop(sem), tried |-> tried,
                   key_used |-> key, raised |-> FALSE, calls |-> exact.calls \o <<qcall>>]
             ELSE [found |-> FALSE, nasabah |-> Nil, tried |-> tried,
                   key_used |-> key, raised |-> FALSE, calls |-> exact.calls \o <<qcall>>])

(* tool_lookup_nasabah(no_polis_raw), reading the memo m; tried is the     *)
(* list no_polis_variants returned, errs the exact queries that raise and  *)
(* sem the outcome of the semantic fallback.                               *)
tool_lookup_nasabah(no_polis_raw, m, tried, errs, sem) ==
  LET key   == Or(m.nasabah_key_no_polis, "no_polis")
      qcall == Call("nasabah", "query_points", normalize_no_polis(no_polis_raw), sem)
  IN  Strict(ExactLoop(key, tried, 1, errs), LAMBDA exact :
        IF exact.nasabah /= Nil
        THEN [found |-> TRUE, nasabah |-> exact.nasabah, tried |-> tried,
              key_used |-> key, raised |-> FALSE, calls |-> exact.calls]
        ELSE IF SemanticTop(sem) /= Nil
             THEN [found |-> TRUE, nasabah |-> SemanticTop(sem), tried |-> tried,
                   key_used |-> key, raised |-> FALSE, calls |-> exact.calls \o <<qcall>>]
             ELSE [found |-> FALSE, nasabah |-> Nil, tried |-> tried,
                   key_used |-> key, raised |-> FALSE, calls |-> exact.calls \o <<qcall>>])

(* The name under the first alias, "-" when that is empty. *)
NameOrDash(pl) == Or(Get(pl, "nama_rs"), "-")

(* pl.get("nama_rs") or pl.get("nama") or pl.get("rumah_sakit") or pl.get("rs") *)
rs_name(pl) ==
  Or(Get(pl, "nama_rs"), Or(Get(pl, "nama"), Or(Get(pl, "rumah_sakit"), Get(pl, "rs"))))

SCROLL_LIMIT_RS == 50

RS_RETURN_MAX == 10

(* s[:n] of a list. *)
Take(seq, n) == IF Len(seq) <= n THEN seq ELSE SubSeq(seq, 1, n)

(* client.scroll("rs_rekanan", scroll_filter = must, limit = 50) *)
RsScroll(kota, rs_mode) ==
  LET all == [i \in 1..NumRs |-> RsStore[i]]
      ok(pl) == /\ Get(pl, "kota") = kota
                /\ (rs_mode = "cashless" => Get(pl, "cashless") = "Ya")
                /\ (rs_mode = "non_cashless" => Get(pl, "cashless") = "Tidak")
  IN  Take(SelectSeq(all, ok), SCROLL_LIMIT_RS)

(* tool_lookup_rs(kota, rs_mode); out is "ok" or "error" (the query raises). *)
tool_lookup_rs(kota, rs_mode, out) ==
  IF out = "error"
  THEN [rs_list |-> <<>>, raised |-> FALSE,
        calls |-> <<Call("rs_rekanan", "scroll", kota, "error")>>]
  ELSE LET payloads == SelectSeq(RsScroll(kota, rs_mode), LAMBDA pl : pl /= Nil)
           cleaned  == SelectSeq(payloads, LAMBDA pl : Truthy(rs_name(pl)))
       IN  [rs_list |-> Take(cleaned, RS_RETURN_MAX), raised |-> FALSE,
            calls |-> <<Call("rs_rekanan", "scroll", kota, "ok")>>]

(* One entry of tool_rag_polis's result, from the payload of a point. *)
Evidence(payload) ==
  [page   |-> Get(payload, "page"),
   source |-> Or(Get(payload, "source_file"), Get(payload, "source")),
   text   |-> Or(Get(payload, "text"),
                 Or(Get(payload, "page_content"), Or(Get(payload, "content"), "")))]

RECURSIVE MapEvidence(_)
MapEvidence(pts) ==
  IF pts = <<>> THEN <<>> ELSE <<Evidence(Head(pts))>> \o MapEvidence(Tail(pts))

(* tool_rag_polis(query, k): out.err tells that embed_query or             *)
(* query_points raises (nothing in the function catches it), out.pts are   *)
(* the points returned otherwise.                                          *)
tool_rag_polis(query, k, out) ==
  IF out.err
  THEN [evidence |-> <<>>, raised |-> TRUE,
        calls |-> <<Call("polis", "query_points", query, "error")>>]
  ELSE [evidence |-> MapEvidence(Take(out.pts, k)), raised |-> FALSE,
        calls |-> <<Call("polis", "query_points", query, "ok")>>]

(***************************************************************************)
(* POLIS LIMIT PICKER                                                      *)
(***************************************************************************)
B2N(b) == IF b THEN 1 ELSE 0

LimitChunkScore(txt, plan_l) ==
    3 * B2N(plan_l /= "" /\ Contains(txt, plan_l))
  + 2 * B2N(Contains(txt, "limit"))
  + 2 * B2N(Contains(txt, "tahunan"))
  + B2N(Contains(txt, "rawat") \/ Contains(txt, "icu"))
  + 2 * B2N(Contains(txt, "rp"))

(* The loop of pick_best_limit_chunk over evs: [best, best_score], starting *)
(* from the given pair; a chunk replaces the best one only with a higher   *)
(* score.                                                                  *)
RECURSIVE LimitPickLoop(_, _, _, _)
LimitPickLoop(evs, plan_l, best, best_score) ==
  IF evs = <<>> THEN [best |-> best, best_score |-> best_score]
  ELSE Strict(low(Head(evs).text), LAMBDA txt :
         IF txt = "" THEN LimitPickLoop(Tail(evs), plan_l, best, best_score)
         ELSE Strict(LimitChunkScore(txt, plan_l), LAMBDA score :
                IF score > best_score
                THEN LimitPickLoop(Tail(evs), plan_l, Head(evs), score)
                ELSE LimitPickLoop(Tail(evs), plan_l, best, best_score)))

LIMIT_PICK_FLOOR == 4

(* pick_best_limit_chunk(evs, plan): Nil for None. *)
pick_best_limit_chunk(evs, plan) ==
  LET plan_l == low(plan)
      r == LimitPickLoop(evs, plan_l, Nil, -1)
  IN  IF r.best_score >= LIMIT_PICK_FLOOR THEN r.best ELSE Nil

(***************************************************************************)
(* SLOT FILLING                                                            *)
(***************************************************************************)
(* The memo st.session_state.memo as first created. *)
InitialMemo ==
  [no_polis |-> None, kota |-> None, pending_slot |-> None, last_intent |-> None,
   last_rs_mode |-> "all", topics |-> <<>>, nasabah_key_no_polis |-> None,
   pending_plan_for_benefit |-> None, greeted |-> FALSE]

(* memo_set(k, v), for the two keys it is used with. *)
memo_set(m, k, v) ==
  IF ~Truthy(v) THEN m
  ELSE IF k = "no_polis" THEN [m EXCEPT !.no_polis = v]
  ELSE [m EXCEPT !.kota = v]

TOPICS_MAX == 10

(* s[-n:] of a list. *)
LastN(seq, n) == IF Len(seq) <= n THEN seq ELSE SubSeq(seq, Len(seq) - n + 1, Len(seq))

memo_add_topic(m, topic) ==
  IF topic /= "" /\ \A i \in 1..Len(m.topics) : m.topics[i] /= topic
  THEN [m EXCEPT !.topics = LastN(Append(m.topics, topic), TOPICS_MAX)]
  ELSE m

(* The turn state app.invoke starts from: {"user_query": q}; the keys not  *)
(* yet written read as None / Nil.                                         *)
NewState(q) ==
  [user_query |-> q, intent |-> None, no_polis |-> None, kota |-> None,
   plan_asked |-> None, rs_mode |-> None, missing_fields |-> <<>>,
   nasabah |-> Nil, rs_list |-> Nil, polis_evidence |-> Nil,
   debug |-> Nil, decision |-> Nil, answer |-> None]

(* apply_slot_filling(user_text, state): [state, memo]. *)
apply_slot_filling(user_text, st, m) ==
  Strict(extract_entities(user_text), LAMBDA ents :
    LET pending  == m.pending_slot
        kotaHit  == pending = "kota" /\ Truthy(ents.kota)
        polisHit == pending = "no_polis" /\ Truthy(ents.no_polis)
        planHit  == pending = "plan_asked" /\ Truthy(ents.plan_asked)
    IN  [state |-> [st EXCEPT !.kota       = IF kotaHit THEN ents.kota ELSE @,
                              !.no_polis   = IF polisHit THEN ents.no_polis ELSE @,
                              !.plan_asked = IF planHit THEN ents.plan_asked ELSE @],
         memo  |-> IF kotaHit \/ polisHit \/ planHit
                   THEN [m EXCEPT !.pending_slot = None] ELSE m])

(***************************************************************************)
(* NODES                                                                   *)
(***************************************************************************)
(* A supervisor that prefers the remembered slot to the one just said. *)
SupervisorMemoryFirst(st, m) ==
  Strict(apply_slot_filling(st.user_query, st, m), LAMBDA sf :
  Strict(extract_entities(st.user_query), LAMBDA ents :
  Strict(classify_intent(st.user_query, sf.memo), LAMBDA intent :
  Strict(detect_rs_mode(st.user_query), LAMBDA rm :
    LET no_polis   == Or(sf.memo.no_polis, Or(sf.state.no_polis, ents.no_polis))
        kota       == Or(sf.memo.kota, Or(sf.state.kota, ents.kota))
        plan_asked == Or(sf.state.plan_asked, ents.plan_asked)
    IN  Strict(memo_set(memo_set([sf.memo EXCEPT !.last_intent = intent],
                                 "no_polis", no_polis), "kota", kota), LAMBDA m2 :
          LET rs_mode == IF Truthy(rm) THEN rm ELSE Or(m2.last_rs_mode, "all")
          IN  [state |-> [sf.state EXCEPT !.no_polis = no_polis, !.kota = kota,
                                          !.plan_asked = plan_asked, !.intent = intent,
                                          !.rs_mode = rs_mode,
                                          !.debug = [nasabah_key_no_polis |->
                                                       m2.nasabah_key_no_polis]],
               memo  |-> [m2 EXCEPT
                            !.last_rs_mode = IF Truthy(rm) THEN rm ELSE @,
                            !.pending_plan_for_benefit =
                               IF intent = "plan_benefit" /\ Truthy(plan_asked)
                               THEN plan_asked ELSE @]])))))

(* A supervisor that takes the slots from the utterance only. *)
SupervisorNoCarry(st, m) ==
  Strict(apply_slot_filling(st.user_query, st, m), LAMBDA sf :
  Strict(extract_entities(st.user_query), LAMBDA ents :
  Strict(classify_intent(st.user_query, sf.memo), LAMBDA intent :
  Strict(detect_rs_mode(st.user_query), LAMBDA rm :
    LET no_polis   == Or(sf.state.no_polis, ents.no_polis)
        kota       == Or(sf.state.kota, ents.kota)
        plan_asked == Or(sf.state.plan_asked, ents.plan_asked)
    IN  Strict(memo_set(memo_set([sf.memo EXCEPT !.last_intent = intent],
                                 "no_polis", no_polis), "kota", kota), LAMBDA m2 :
          LET rs_mode == IF Truthy(rm) THEN rm ELSE Or(m2.last_rs_mode, "all")
          IN  [state |-> [sf.state EXCEPT !.no_polis = no_polis, !.kota = kota,
                                          !.plan_asked = plan_asked, !.intent = intent,
                                          !.rs_mode = rs_mode,
                                          !.debug = [nasabah_key_no_polis |->
                                                       m2.nasabah_key_no_polis]],
               memo  |-> [m2 EXCEPT
                            !.last_rs_mode = IF Truthy(rm) THEN rm ELSE @,
                            !.pending_plan_for_benefit =
                               IF intent = "plan_benefit" /\ Truthy(plan_asked)
                               THEN plan_asked ELSE @]])))))

(* supervisor_node(state): [state, memo]. *)
supervisor_node(st, m) ==
  Strict(apply_slot_filling(st.user_query, st, m), LAMBDA sf :
  Strict(extract_entities(st.user_query), LAMBDA ents :
  Strict(classify_intent(st.user_query, sf.memo), LAMBDA intent :
  Strict(detect_rs_mode(st.user_query), LAMBDA rm :
    LET no_polis   == Or(sf.state.no_polis, Or(ents.no_polis, sf.memo.no_polis))
        kota       == Or(sf.state.kota, Or(ents.kota, sf.memo.kota))
        plan_asked == Or(sf.state.plan_asked, ents.plan_asked)
    IN  Strict(memo_set(memo_set([sf.memo EXCEPT !.last_intent = intent],
                                 "no_polis", no_polis), "kota", kota), LAMBDA m2 :
          LET rs_mode == IF Truthy(rm) THEN rm ELSE Or(m2.last_rs_mode, "all")
          IN  [state |-> [sf.state EXCEPT !.no_polis = no_polis, !.kota = kota,
                                          !.plan_asked = plan_asked, !.intent = intent,
                                          !.rs_mode = rs_mode,
                                          !.debug = [nasabah_key_no_polis |->
                                                       m2.nasabah_key_no_polis]],
               memo  |-> [m2 EXCEPT
                            !.last_rs_mode = IF Truthy(rm) THEN rm ELSE @,
                            !.pending_plan_for_benefit =
                               IF intent = "plan_benefit" /\ Truthy(plan_asked)
                               THEN plan_asked ELSE @]])))))

(* state.get(f) for a slot name f. *)
SlotOf(st, f) ==
  IF f = "kota" THEN st.kota ELSE IF f = "no_polis" THEN st.no_polis ELSE st.plan_asked

(* requirements_node arming the slot kota for whatever field is missing. *)
RequirementsArmKota(st, m) ==
  LET need    == required_fields(st.intent)
      missing == SelectSeq(need, LAMBDA f : ~Truthy(SlotOf(st, f)))
  IN  [state |-> [st EXCEPT !.missing_fields = missing],
       memo  |-> [m EXCEPT !.pending_slot = IF missing /= <<>> THEN "kota" ELSE None]]

(* requirements_node(state): [state, memo]. *)
requirements_node(st, m) ==
  LET need    == required_fields(st.intent)
      missing == SelectSeq(need, LAMBDA f : ~Truthy(SlotOf(st, f)))
  IN  [state |-> [st EXCEPT !.missing_fields = missing],
       memo  |-> [m EXCEPT !.pending_slot = IF missing /= <<>> THEN missing[1] ELSE None]]

(* nasabah_node(state): [state, calls, raised]. *)
nasabah_node(st, m, tried, errs, sem) ==
  IF Truthy(st.no_polis)
  THEN Strict(tool_lookup_nasabah(st.no_polis, m, tried, errs, sem), LAMBDA res :
         [state |-> [st EXCEPT !.nasabah = res.nasabah,
                               !.debug = [nasabah_key_no_polis |-> @.nasabah_key_no_polis,
                                          nasabah_key_used |-> res.key_used,
                                          nasabah_tried |-> res.tried,
                                          nasabah_found |-> res.found]],
          calls |-> res.calls, raised |-> res.raised])
  ELSE [state |-> [st EXCEPT !.nasabah = Nil], calls |-> <<>>, raised |-> FALSE]

(* rs_node(state): [state, calls, raised]. *)
rs_node(st, out) ==
  IF Truthy(st.kota)
  THEN Strict(tool_lookup_rs(st.kota, Or(st.rs_mode, "all"), out), LAMBDA res :
         [state |-> [st EXCEPT !.rs_list = res.rs_list],
          calls |-> res.calls, raised |-> res.raised])
  ELSE [state |-> [st EXCEPT !.rs_list = <<>>], calls |-> <<>>, raised |-> FALSE]

CLAIM_QUERY ==
  "prosedur klaim cara klaim langkah klaim dokumen klaim formulir klaim "
  \o "resume medis kwitansi rincian biaya batas waktu pengajuan "
  \o "klaim cashless verifikasi rumah sakit rekanan klaim reimbursement"

(* One tool_rag_polis call of polis_node: a raise ends the node. *)
PolisOne(st, query, k, out) ==
  Strict(tool_rag_polis(query, k, out), LAMBDA r :
    [state |-> IF r.raised THEN st ELSE [st EXCEPT !.polis_evidence = r.evidence],
     calls |-> r.calls, raised |-> r.raised])

(* polis_node(state): [state, calls, raised]; out1 and out2 are the        *)
(* outcomes of its first and, for limit_plan, second query.                *)
polis_node(st, m, out1, out2) ==
  LET intent == st.intent
  IN  IF intent = "claim_requirements" THEN PolisOne(st, CLAIM_QUERY, 35, out1)
      ELSE IF intent = "limit_plan"
      THEN LET plan == Or(st.plan_asked, "")
               q1 == "BAB IV LIMIT DAN PLAN " \o plan
                     \o " Limit Tahunan Rawat Inap ICU Rawat Jalan Rp"
               q2 == "LIMIT DAN PLAN " \o plan \o " Limit Tahunan Rp Rawat"
           IN  Strict(tool_rag_polis(q1, 35, out1), LAMBDA r1 :
                 IF r1.raised THEN [state |-> st, calls |-> r1.calls, raised |-> TRUE]
                 ELSE IF pick_best_limit_chunk(r1.evidence, plan) = Nil
                      THEN Strict(PolisOne(st, q2, 40, out2), LAMBDA r2 :
                             [state |-> r2.state, calls |-> r1.calls \o r2.calls,
                              raised |-> r2.raised])
                      ELSE [state |-> [st EXCEPT !.polis_evidence = r1.evidence],
                            calls |-> r1.calls, raised |-> FALSE])
      ELSE IF intent = "plan_benefit"
      THEN LET plan == Or(st.plan_asked, Or(m.pending_plan_for_benefit, ""))
           IN  PolisOne(st, "manfaat " \o plan \o " plan " \o plan
                            \o " rawat inap rawat jalan icu manfaat tambahan", 40, out1)
      ELSE PolisOne(st, st.user_query, 30, out1)

(* The routing without its first test. *)
RouteByIntentOnly(st) ==
  IF st.intent = "rs_search" THEN "rs"
  ELSE IF st.intent \in {"policy_status", "policy_plan_lookup", "cashless_policy"}
       THEN "nasabah"
  ELSE IF st.intent \in {"limit_plan", "claim_requirements", "plan_benefit"}
       THEN "polis"
  ELSE "decision"

(* A router that sends a bare policy number to the customer-record lookup. *)
RouteNumberToNasabah(st) ==
  IF st.missing_fields /= <<>> THEN "decision"
  ELSE IF st.intent = "rs_search" THEN "rs"
  ELSE IF st.intent \in {"policy_status", "policy_plan_lookup", "cashless_policy",
                         "provide_policy_number"}
       THEN "nasabah"
  ELSE IF st.intent \in {"limit_plan", "claim_requirements", "plan_benefit"}
       THEN "polis"
  ELSE "decision"

(* A router without the policy-document branch for claim_requirements. *)
RouteClaimToDecision(st) ==
  IF st.missing_fields /= <<>> THEN "decision"
  ELSE IF st.intent = "rs_search" THEN "rs"
  ELSE IF st.intent \in {"policy_status", "policy_plan_lookup", "cashless_policy"}
       THEN "nasabah"
  ELSE IF st.intent \in {"limit_plan", "plan_benefit"} THEN "polis"
  ELSE "decision"

(* route_after_requirements(state) *)
route_after_requirements(st) ==
  IF st.missing_fields /= <<>> THEN "decision"
  ELSE IF st.intent = "rs_search" THEN "rs"
  ELSE IF st.intent \in {"policy_status", "policy_plan_lookup", "cashless_policy"}
       THEN "nasabah"
  ELSE IF st.intent \in {"limit_plan", "claim_requirements", "plan_benefit"}
       THEN "polis"
  ELSE "decision"

(***************************************************************************)
(* DECISION                                                                *)
(***************************************************************************)
STATUSES == {"NEED_INPUT", "NEED_CHOICE", "FOUND", "NOT_FOUND", "MISSING_FIELD", "UNKNOWN"}

STATUS_ALIASES == <<"status_polis", "status polis", "policy_status", "status", "aktif",
                    "is_active", "active_status">>

END_DATE_ALIASES == <<"tanggal_akhir", "akhir_polis", "masa_berlaku_sampai", "expired_date",
                      "expiry_date", "end_date", "tanggal_expired", "tgl_akhir",
                      "valid_until", "berlaku_sampai">>

PLAN_ALIASES == <<"plan", "jenis_plan", "plan polis", "policy_plan", "tipe_plan">>

CLAIM_METHOD_ALIASES == <<"metode_klaim", "metode klaim", "claim_method", "jenis_klaim",
                          "cashless">>

CLAIM_KEYWORDS == {"klaim", "claim", "cashless", "reimbursement", "dokumen", "formulir",
                   "kwitansi", "resume", "verifikasi", "pengajuan", "batas waktu"}

(* Number of the keywords kws that occur in txt. *)
CountIn(txt, kws) == Cardinality({kw \in kws : Contains(txt, kw)})

LENGTH_BONUS_OVER == 300

(* The score decision_node gives the lower-cased text of one chunk. *)
EvidenceScore(intent, txt, plan_l) ==
  (IF intent = "claim_requirements"
   THEN   2 * CountIn(txt, CLAIM_KEYWORDS)
        - 4 * B2N(Contains(txt, "limit") /\ Contains(txt, "plan"))
        - 6 * B2N(Contains(txt, "bab iv") \/ Contains(txt, "limit dan plan"))
   ELSE IF intent = "limit_plan"
   THEN   4 * B2N(plan_l /= "" /\ Contains(txt, plan_l))
        + 2 * CountIn(txt, {"limit", "tahunan", "rawat", "icu", "rp"})
   ELSE IF intent = "plan_benefit"
   THEN   3 * B2N(plan_l /= "" /\ Contains(txt, plan_l))
        + 2 * CountIn(txt, {"manfaat", "rawat", "icu", "persalinan", "kritis"})
        - 2 * B2N(Contains(txt, "limit dan plan") /\ ~Contains(txt, "manfaat"))
   ELSE 0)
  + B2N(Len(txt) > LENGTH_BONUS_OVER)

(* A floor of zero for every intent. *)
ZeroFloor(intent) == 0

(* min_ok = 3 if intent == "claim_requirements" else 1 *)
MinOk(intent) == IF intent = "claim_requirements" THEN 3 ELSE 1

QUOTE_MAX == 900

RS_ITEMS_MAX == 5

RECURSIVE RsItems(_)
RsItems(rs_list) ==
  IF rs_list = <<>> THEN <<>>
  ELSE <<[nama_rs  |-> rs_name(Head(rs_list)),
          cashless |-> cashless_to_ya_tidak(Get(Head(rs_list), "cashless"))]>>
       \o RsItems(Tail(rs_list))

(* The decision of a customer-record intent once the record nas is there. *)
StatusDecision(d, nas, today) ==
  Strict(find_value_by_alias(nas, STATUS_ALIASES).val, LAMBDA status_val :
    IF status_val /= None
    THEN d @@ [status |-> "FOUND", status_polis |-> norm(status_val)]
    ELSE Strict(parse_date_any(find_value_by_alias(nas, END_DATE_ALIASES).val),
                LAMBDA end_dt :
           IF end_dt /= NoDate
           THEN d @@ [status |-> "FOUND",
                      status_polis |->
                        (IF DateGE(end_dt, today) THEN "Aktif" ELSE "Tidak aktif")
                        \o " (berdasarkan tanggal akhir " \o IsoFormat(end_dt) \o ")"]
           ELSE d @@ [status |-> "MISSING_FIELD"]))

(* The decision of policy_plan_lookup once the record nas is there. *)
PlanDecision(d, nas) ==
  Strict(find_value_by_alias(nas, PLAN_ALIASES).val, LAMBDA val :
    IF val = None THEN d @@ [status |-> "MISSING_FIELD"]
    ELSE d @@ [status |-> "FOUND", plan |-> norm(val)])

(* The decision of cashless_policy once the record nas is there. *)
CashlessDecision(d, nas) ==
  Strict(find_value_by_alias(nas, CLAIM_METHOD_ALIASES).val, LAMBDA val :
    IF val = None THEN d @@ [status |-> "MISSING_FIELD"]
    ELSE Strict(low(val), LAMBDA v :
           d @@ [status |-> "FOUND", metode_klaim |-> norm(val),
                 can_cashless |-> Contains(v, "cashless") \/ v \in {"ya", "true", "1"}]))

(* The scoring loop of decision_node over the evidence: [best, best_score]. *)
RECURSIVE EvidencePickLoop(_, _, _, _, _)
EvidencePickLoop(evs, intent, plan_l, best, best_score) ==
  IF evs = <<>> THEN [best |-> best, best_score |-> best_score]
  ELSE Strict(low(Head(evs).text), LAMBDA txt :
         IF txt = "" THEN EvidencePickLoop(Tail(evs), intent, plan_l, best, best_score)
         ELSE Strict(EvidenceScore(intent, txt, plan_l), LAMBDA score :
                IF score > best_score
                THEN EvidencePickLoop(Tail(evs), intent, plan_l, Head(evs), score)
                ELSE EvidencePickLoop(Tail(evs), intent, plan_l, best, best_score)))

(* The decision of the three policy-book intents. *)
EvidenceDecision(d, intent, evs, plan) ==
  Strict(low(plan), LAMBDA plan_l :
  Strict(EvidencePickLoop(evs, intent, plan_l, Nil, -10),
         LAMBDA r :
    IF r.best = Nil \/ r.best_score < MinOk(intent)
    THEN d @@ [status |-> "NOT_FOUND"]
    ELSE d @@ [status |-> "FOUND", source |-> r.best.source, page |-> r.best.page,
               quote |-> Prefix(norm(r.best.text), QUOTE_MAX)]
           @@ (IF intent \in {"limit_plan", "plan_benefit"}
               THEN [plan |-> plan] ELSE <<>>)))

(* Nothing is ever missing. *)
NothingMissing(st) == <<>>

(* missing = state.get("missing_fields") or [] *)
MissingOf(st) == st.missing_fields

(* The decision record decision_node builds, and the topic it remembers. *)
DecisionOf(st, m, today) ==
  LET intent  == st.intent
      missing == MissingOf(st)
      d       == [intent |-> intent]
      nas     == st.nasabah
      dn      == [intent |-> intent, no_polis_input |-> st.no_polis]
      out(dec, t) == [decision |-> dec, topic |-> t]
  IN  IF missing /= <<>>
        THEN out(d @@ [status |-> "NEED_INPUT", need |-> missing], "")
      ELSE IF intent = "provide_policy_number"
        THEN out(d @@ [status |-> "NEED_CHOICE", no_polis |-> st.no_polis], "")
      ELSE IF intent = "policy_status"
        THEN out(IF nas = Nil THEN dn @@ [status |-> "NOT_FOUND"]
                 ELSE StatusDecision(dn, nas, today), "Status polis")
      ELSE IF intent = "policy_plan_lookup"
        THEN out(IF nas = Nil THEN dn @@ [status |-> "NOT_FOUND"]
                 ELSE PlanDecision(dn, nas), "Plan polis")
      ELSE IF intent = "cashless_policy"
        THEN out(IF nas = Nil THEN dn @@ [status |-> "NOT_FOUND"]
                 ELSE CashlessDecision(dn, nas), "Cashless")
      ELSE IF intent = "rs_search"
        THEN out(d @@ [status   |-> IF st.rs_list /= <<>> THEN "FOUND" ELSE "NOT_FOUND",
                       kota     |-> st.kota,
                       rs_mode  |-> st.rs_mode,
                       rs_items |-> RsItems(Take(st.rs_list, RS_ITEMS_MAX))],
                 "RS rekanan")
      ELSE IF intent \in {"claim_requirements", "limit_plan", "plan_benefit"}
        THEN out(EvidenceDecision(d, intent, st.polis_evidence,
                                  Or(st.plan_asked, Or(m.pending_plan_for_benefit, ""))),
                 "")
      ELSE out(d @@ [status |-> "UNKNOWN"], "")

(* decision_node(state): [state, memo]; today is date.today(). *)
decision_node(st, m, today) ==
  Strict(DecisionOf(st, m, today), LAMBDA r :
    [state |-> [st EXCEPT !.decision = r.decision],
     memo  |-> memo_add_topic(m, r.topic)])

(***************************************************************************)
(* TEXT EXTRACTION FOR PLAN and ANSWER DIRECT                              *)
(* The emoji of the source's templates is written ":)".                    *)
(***************************************************************************)
PLAN_SECTION_MAX == 220

PLAN_CONTEXT_BEFORE == 120

(* str.find: position (from 1) of the first occurrence of k in t, 0 for -1. *)
Find(t, k) ==
  LET at == {i \in 1..(Len(t) - Len(k) + 1) : SubSeq(t, i, i + Len(k) - 1) = k}
  IN  IF at = {} THEN 0 ELSE Min(at)

extract_only_plan_section(text, plan) ==
  Strict(CollapseSpaces(text), LAMBDA t :
  Strict(Lower(t), LAMBDA tl :
  Strict(Upper(Strip(plan)), LAMBDA plan_u :
  Strict(Lower(plan_u), LAMBDA pl :
    IF text = "" \/ plan_u = "" THEN ""
    ELSE
    (* re.search(rf"\b{plan_u}\b\s+(.{0,220})", t, flags=re.IGNORECASE) *)
    Strict({i \in 1..(Len(t) - Len(pl)) :
              /\ SubSeq(tl, i, i + Len(pl) - 1) = pl
              /\ IsBoundary(t, i)
              /\ IsBoundary(t, i + Len(pl))
              /\ CharAt(t, i + Len(pl)) \in SpaceSet}, LAMBDA at :
      IF at /= {}
      THEN LET i    == Min(at)
               from == i + Len(pl) + RunLen(t, i + Len(pl), SpaceSet, Len(t))
           IN  Strip(plan_u \o " " \o Prefix(SubSeq(t, from, Len(t)), PLAN_SECTION_MAX))
      ELSE Strict(Find(tl, Lower(plan)), LAMBDA idx :
             IF idx /= 0
             THEN LET start == IF idx - 1 - PLAN_CONTEXT_BEFORE > 0
                               THEN idx - 1 - PLAN_CONTEXT_BEFORE ELSE 0
                      end   == IF idx - 1 + PLAN_SECTION_MAX < Len(t)
                               THEN idx - 1 + PLAN_SECTION_MAX ELSE Len(t)
                  IN  Strip(SubSeq(t, start + 1, end))
             ELSE ""))))))

(* ", ".join(need) *)
RECURSIVE JoinComma(_)
JoinComma(xs) ==
  IF xs = <<>> THEN ""
  ELSE IF Len(xs) = 1 THEN xs[1] ELSE xs[1] \o ", " \o JoinComma(Tail(xs))

(* f"{v}" of an optional string. *)
Fmt(v) == IF v = None THEN "None" ELSE v

InSeq(x, xs) == \E i \in 1..Len(xs) : xs[i] = x

NOT_FOUND_IN_DB(d) == "Maaf, **" \o Fmt(d.no_polis_input) \o "** tidak ditemukan di database nasabah."

RECURSIVE RsLines(_)
RsLines(items) ==
  IF items = <<>> THEN ""
  ELSE "\n- " \o Fmt(Head(items).nama_rs) \o " | cashless: " \o Head(items).cashless
       \o RsLines(Tail(items))

FALLBACK_ANSWER ==
  "Maaf, saya belum bisa menjawab dari database yang tersedia. Bisa jelaskan maksudnya sedikit? :)"

CLAIM_QUOTE_MAX == 420

answer_from_decision(d) ==
  IF d = Nil THEN FALLBACK_ANSWER
  ELSE
  LET status == d.status
      intent == d.intent
  IN  IF status = "NEED_INPUT"
      THEN (IF InSeq("kota", d.need)
            THEN "Boleh sebutkan **kota** yang ingin dicek RS rekanannya? :)"
            ELSE IF InSeq("no_polis", d.need)
            THEN "Untuk saya cek di database, saya perlu **no_polis**. Boleh kirim ya :)"
            ELSE IF InSeq("plan_asked", d.need)
            THEN "Anda ingin plan yang mana? **Silver / Gold / Platinum** :)"
            ELSE "Saya perlu data: " \o JoinComma(d.need))
      ELSE IF status = "NEED_CHOICE"
      THEN "Siap :) No polis **" \o Fmt(d.no_polis) \o "** sudah saya catat.\n"
           \o "Mau dicek: **status / plan / cashless**?"
      ELSE IF intent = "policy_status" /\ status = "FOUND"
      THEN "Status polis **" \o Fmt(d.no_polis_input) \o "** (database nasabah): **"
           \o d.status_polis \o "**."
      ELSE IF intent = "policy_status" /\ status = "NOT_FOUND" THEN NOT_FOUND_IN_DB(d)
      ELSE IF intent = "policy_status" /\ status = "MISSING_FIELD"
      THEN "Data polis **" \o Fmt(d.no_polis_input)
           \o "** ditemukan, tapi **status/masa berlaku** tidak tersedia di database nasabah."
      ELSE IF intent = "policy_plan_lookup" /\ status = "FOUND"
      THEN "Plan polis **" \o Fmt(d.no_polis_input) \o "** (database nasabah): **"
           \o d.plan \o "**."
      ELSE IF intent = "policy_plan_lookup" /\ status = "NOT_FOUND" THEN NOT_FOUND_IN_DB(d)
      ELSE IF intent = "policy_plan_lookup" /\ status = "MISSING_FIELD"
      THEN "Data polis **" \o Fmt(d.no_polis_input)
           \o "** ditemukan, tapi field **plan** kosong di database nasabah."
      ELSE IF intent = "cashless_policy" /\ status = "FOUND"
      THEN "Metode klaim polis **" \o Fmt(d.no_polis_input) \o "** (database nasabah): **"
           \o d.metode_klaim \o "**. Kesimpulan: **"
           \o (IF d.can_cashless THEN "bisa" ELSE "tidak") \o " cashless**."
      ELSE IF intent = "cashless_policy" /\ status = "NOT_FOUND" THEN NOT_FOUND_IN_DB(d)
      ELSE IF intent = "cashless_policy" /\ status = "MISSING_FIELD"
      THEN "Data polis ditemukan, tapi **metode_klaim** kosong di database sehingga cashless belum bisa dipastikan."
      ELSE IF intent = "rs_search" /\ status = "FOUND"
      THEN "RS rekanan di **" \o Fmt(d.kota) \o "** ("
           \o (IF d.rs_mode = "cashless" THEN "cashless"
               ELSE IF d.rs_mode = "non_cashless" THEN "non-cashless (reimburse)"
               ELSE "semua")
           \o ") (database):" \o RsLines(d.rs_items)
      ELSE IF intent = "rs_search"
      THEN "Maaf, saya belum menemukan RS rekanan di database untuk kota **"
           \o Fmt(d.kota) \o "**."
      ELSE IF intent \in {"limit_plan", "plan_benefit"} /\ status = "FOUND"
      THEN LET plan == Or(d.plan, "")
           IN  (IF intent = "limit_plan" THEN "Limit plan **"
                ELSE "Manfaat/ketentuan terkait plan **")
               \o plan \o "** (rujukan buku polis):\n- Hal: " \o Fmt(d.page)
               \o " | Sumber: " \o Fmt(d.source) \o "\n- Kutipan: "
               \o Strict(norm(d.quote), LAMBDA raw :
                     Strict(extract_only_plan_section(raw, plan), LAMBDA sect :
                       IF sect /= "" THEN sect
                       ELSE Prefix(CollapseSpaces(raw), PLAN_SECTION_MAX)))
      ELSE IF intent = "limit_plan"
      THEN "Maaf, bagian limit plan tersebut **belum ditemukan** di buku polis pada data yang tersimpan."
      ELSE IF intent = "plan_benefit"
      THEN "Maaf, bagian manfaat plan tersebut **belum ditemukan** di buku polis pada data yang tersimpan."
      ELSE IF intent = "claim_requirements" /\ status = "FOUND"
      THEN "Cara/ketentuan klaim (rujukan buku polis):\n- Hal: " \o Fmt(d.page)
           \o " | Sumber: " \o Fmt(d.source) \o "\n- Kutipan: "
           \o Prefix(CollapseSpaces(norm(d.quote)), CLAIM_QUOTE_MAX)
      ELSE IF intent = "claim_requirements"
      THEN "Maaf, bagian **cara/ketentuan klaim** belum ditemukan di buku polis pada data yang tersimpan."
      ELSE FALLBACK_ANSWER

(* A composer that takes whatever the rephrasing call left. *)
ComposeUnguarded(st, use_llm, llm) ==
  [st EXCEPT !.answer = IF use_llm THEN Strip(llm.content)
                        ELSE answer_from_decision(st.decision)]

(* compose_node(state): use_llm is the sidebar toggle; llm.err tells that  *)
(* the rephrasing call raises, llm.content is what it returns otherwise.   *)
compose_node(st, use_llm, llm) ==
  Strict(answer_from_decision(st.decision), LAMBDA base :
    IF use_llm /\ base /= ""
    THEN (IF llm.err THEN [st EXCEPT !.answer = base]
          ELSE Strict(Strip(llm.content), LAMBDA cleaned :
                 [st EXCEPT !.answer = IF cleaned /= "" THEN cleaned ELSE base]))
    ELSE [st EXCEPT !.answer = base])

(* is_closing_message(text) *)
is_closing_message(text) ==
  Strict(Lower(Strip(IF text = None THEN "" ELSE text)), LAMBDA t :
    IF \/ Contains(t, "?")
       \/ ContainsAny(t, {"gimana", "bagaimana", "cara", "syarat", "kenapa", "kapan",
                          "berapa", "apa", "apakah"})
    THEN FALSE
    ELSE ContainsAny(t, {"terima kasih", "makasih", "thanks", "thank you", "oke makasih",
                         "ok makasih", "sip makasih", "selesai", "sudah cukup",
                         "udah cukup", "cukup"}))

(***************************************************************************)
(* AUTO-DETECT KEY "no_polis" in NASABAH payload                           *)
(***************************************************************************)
NO_POLIS_CANDIDATE_KEYS == <<"no_polis", "nomor_polis", "policy_no", "policy_number",
                             "no polis", "nomor polis", "polis", "noPolicy">>

(* detect_nasabah_no_polis_key(): raises tells that the sample scroll      *)
(* raises (caught: None).                                                  *)
detect_nasabah_no_polis_key(raises) ==
  IF raises \/ NasabahStore = <<>> \/ NasabahStore[1] = Nil THEN None
  ELSE LET payload == NasabahStore[1]
       IN  Strict(KeyScores(payload, NO_POLIS_CANDIDATE_KEYS), LAMBDA sc :
             LET top == {i \in 1..Len(payload) :
                           /\ RatioGT(sc[i], <<0, 1>>)
                           /\ \A j \in 1..Len(payload) : ~RatioGT(sc[j], sc[i])}
             IN  IF top /= {} /\ RatioOK(sc[Min(top)]) THEN payload[Min(top)].k ELSE None)

(***************************************************************************)
(* The state machine                                                       *)
(***************************************************************************)
VARIABLES
  memo,     \* st.session_state.memo: the Session Memory
  state,    \* the GraphState of the turn in progress
  pc,       \* "idle", the node about to run, "end" (app.invoke returned) or "failed"
  visited,  \* the nodes run so far in this turn, in order
  calls,    \* the external calls issued so far in this turn, in order
  turns,    \* number of turns started in this session
  memo0,    \* the memo as it was when the turn in progress started
  last_set, \* per slot, the value the latest answered turn that resolved it gave it
  llm_reply, \* what llm_rephrase.invoke did in this turn's compose_node
  parked    \* the script run that is not scheduled now (another session, or
            \* another turn of this session), Nobody when there is none

vars == <<memo, state, pc, visited, calls, turns, memo0, last_set, llm_reply, parked>>

(* No other script run. *)
Nobody == [sid |-> "none"]

(* Turns of one session that are explored. *)
MaxTurns == 2

(* What the user may type. *)
Utterances ==
  { "rs bandung",
    "rumah sakit rekanan",
    "Bandung",
    "di jakarta aja",
    "apakah polis saya masih aktif?",
    "POL-2024",
    "plan saya apa",
    "bisa cashless ab-1234",
    "limit gold",
    "limit goldnya",
    "platinum",
    "cara klaim",
    "manfaat plan silver",
    "ya",
    "ok makasih" }

(* date.today() *)
Todays == {<<2025, 12, 31>>, <<2026, 11, 6>>}

(* Outcomes of one tool_rag_polis call. *)
PolisOutcomes == {[err |-> TRUE, pts |-> <<>>]} \cup {[err |-> FALSE, pts |-> h] : h \in PolisHits}

(* Outcomes of the rephrasing call llm_rephrase.invoke on the text base:   *)
(* it raises, or returns a message whose content is any text (None reads   *)
(* as ""): nothing, blanks, the text reworded, the text with a sentence    *)
(* of its own added.                                                       *)
LlmOutcomes(base) ==
  { [err |-> TRUE, content |-> ""],
    [err |-> FALSE, content |-> ""],
    [err |-> FALSE, content |-> "  "],
    [err |-> FALSE, content |-> "Baik. " \o base],
    [err |-> FALSE, content |-> base \o " Hubungi Ani di 1500123."] }

(* llm_rephrase.invoke was not called. *)
NotInvoked == [invoked |-> FALSE, err |-> FALSE, content |-> ""]

IdleState == NewState(None)

SLOTS == {"no_polis", "kota", "plan_asked", "rs_mode"}

NoSlots == [no_polis |-> None, kota |-> None, plan_asked |-> None, rs_mode |-> None]

(* last_set after a turn that resolved the slots as in st. *)
RecordSlots(ls, st) ==
  [no_polis   |-> Or(st.no_polis, ls.no_polis),
   kota       |-> Or(st.kota, ls.kota),
   plan_asked |-> Or(st.plan_asked, ls.plan_asked),
   rs_mode    |-> Or(st.rs_mode, ls.rs_mode)]

(* The session after the first run of the script (the page is loaded, no   *)
(* message yet): the memo is created, the policy-number key is detected    *)
(* unless the sample query raises, and the greeting is shown.              *)
Init ==
  /\ \E raises \in BOOLEAN :
       memo = [InitialMemo EXCEPT !.nasabah_key_no_polis = detect_nasabah_no_polis_key(raises),
                                  !.greeted = TRUE]
  /\ state = IdleState
  /\ pc = "idle"
  /\ visited = <<>>
  /\ calls = <<>>
  /\ turns = 0
  /\ memo0 = memo
  /\ last_set = NoSlots
  /\ llm_reply = NotInvoked
  /\ parked = Nobody

(* The memo after the top of the script has run again: the key is detected *)
(* if it is still unknown.                                                 *)
Rerun(m, raises) ==
  IF Truthy(m.nasabah_key_no_polis) THEN m
  ELSE [m EXCEPT !.nasabah_key_no_polis = detect_nasabah_no_polis_key(raises)]

(* A message arrives: the script runs again and invokes the graph on       *)
(* {"user_query": q}.                                                      *)
UserInput ==
  /\ pc = "idle"
  /\ turns < MaxTurns
  /\ \E q \in Utterances, raises \in BOOLEAN :
       /\ ~is_closing_message(q)
       /\ (Truthy(memo.nasabah_key_no_polis) => ~raises)
       /\ memo' = Rerun(memo, raises)
       /\ state' = NewState(q)
  /\ pc' = "supervisor"
  /\ visited' = <<>>
  /\ calls' = <<>>
  /\ turns' = turns + 1
  /\ memo0' = memo'
  /\ UNCHANGED <<last_set, llm_reply>>
  /\ UNCHANGED parked

(* A closing message arrives: it is answered without invoking the graph. *)
UserClosing ==
  /\ pc = "idle"
  /\ turns < MaxTurns
  /\ \E q \in Utterances, raises \in BOOLEAN :
       /\ is_closing_message(q)
       /\ (Truthy(memo.nasabah_key_no_polis) => ~raises)
       /\ memo' = Rerun(memo, raises)
  /\ turns' = turns + 1
  /\ memo0' = memo'
  /\ UNCHANGED <<state, pc, visited, calls, last_set, llm_reply>>
  /\ UNCHANGED parked

Supervisor ==
  /\ pc = "supervisor"
  /\ LET r == supervisor_node(state, memo)
     IN  state' = r.state /\ memo' = r.memo
  /\ pc' = "requirements"
  /\ visited' = Append(visited, "supervisor")
  /\ UNCHANGED <<calls, turns, memo0, last_set, llm_reply>>
  /\ UNCHANGED parked

Requirements ==
  /\ pc = "requirements"
  /\ LET r == requirements_node(state, memo)
     IN  state' = r.state /\ memo' = r.memo /\ pc' = route_after_requirements(r.state)
  /\ visited' = Append(visited, "requirements")
  /\ UNCHANGED <<calls, turns, memo0, last_set, llm_reply>>
  /\ UNCHANGED parked

(* A graph whose lookup nodes lead back to requirements. *)
AfterLookupRevisit(node, r) ==
  /\ state' = r.state
  /\ calls' = calls \o r.calls
  /\ pc' = IF r.raised THEN "failed" ELSE "requirements"
  /\ visited' = Append(visited, node)
  /\ UNCHANGED <<memo, turns, memo0, last_set, llm_reply>>
  /\ UNCHANGED parked

(* A lookup node ran with result r: on to decision, or the turn fails. *)
AfterLookup(node, r) ==
  /\ state' = r.state
  /\ calls' = calls \o r.calls
  /\ pc' = IF r.raised THEN "failed" ELSE "decision"
  /\ visited' = Append(visited, node)
  /\ UNCHANGED <<memo, turns, memo0, last_set, llm_reply>>
  /\ UNCHANGED parked

Rs ==
  /\ pc = "rs"
  /\ \E out \in {"ok", "error"} : AfterLookup("rs", rs_node(state, out))

Nasabah ==
  /\ pc = "nasabah"
  /\ \E tried \in Orders(no_polis_variants(state.no_polis)) :
       \E errs \in SUBSET (1..Len(tried)), sem \in SemanticOutcomes :
         AfterLookup("nasabah", nasabah_node(state, memo, tried, errs, sem))

Polis ==
  /\ pc = "polis"
  /\ \E out1, out2 \in PolisOutcomes :
       AfterLookup("polis", polis_node(state, memo, out1, out2))

Decision ==
  /\ pc = "decision"
  /\ \E today \in Todays :
       LET r == decision_node(state, memo, today)
       IN  state' = r.state /\ memo' = r.memo
  /\ pc' = "compose"
  /\ visited' = Append(visited, "decision")
  /\ UNCHANGED <<calls, turns, memo0, last_set, llm_reply>>
  /\ UNCHANGED parked

Compose ==
  /\ pc = "compose"
  /\ \E base \in {answer_from_decision(state.decision)}, use_llm \in BOOLEAN :
       IF use_llm /\ base /= ""
       THEN \E llm \in LlmOutcomes(base) :
              /\ state' = compose_node(state, use_llm, llm)
              /\ llm_reply' = [invoked |-> TRUE, err |-> llm.err, content |-> llm.content]
       ELSE /\ state' = compose_node(state, use_llm, NotInvoked)
            /\ llm_reply' = NotInvoked
  /\ pc' = "end"
  /\ visited' = Append(visited, "compose")
  /\ UNCHANGED <<memo, calls, turns, memo0, last_set>>
  /\ UNCHANGED parked

(* app.invoke returned: the answer is shown and the turn state is dropped. *)
RenderAnswer ==
  /\ pc = "end"
  /\ pc' = "idle"
  /\ state' = IdleState
  /\ visited' = <<>>
  /\ calls' = <<>>
  /\ memo0' = memo
  /\ last_set' = RecordSlots(last_set, state)
  /\ llm_reply' = NotInvoked
  /\ UNCHANGED <<memo, turns, parked>>

(* app.invoke raised: the error is shown and the script stops. *)
RenderError ==
  /\ pc = "failed"
  /\ pc' = "idle"
  /\ state' = IdleState
  /\ visited' = <<>>
  /\ calls' = <<>>
  /\ memo0' = memo
  /\ UNCHANGED <<memo, turns, last_set, llm_reply>>
  /\ UNCHANGED parked

Next ==
  \/ UserInput
  \/ UserClosing
  \/ Supervisor
  \/ Requirements
  \/ Rs
  \/ Nasabah
  \/ Polis
  \/ Decision
  \/ Compose
  \/ RenderAnswer
  \/ RenderError

Spec == Init /\ [][Next]_vars

(***************************************************************************)
(* The first message of a fresh session, over a grid of utterances: one    *)
(* phrase per keyword feature of classify_intent, in every combination.    *)
(* Only the supervisor runs.                                               *)
(***************************************************************************)
FeaturePhrases ==
  << [f |-> "limit",     phrase |-> "limit"],
     [f |-> "tier",      phrase |-> "gold"],
     [f |-> "cashless",  phrase |-> "cashless"],
     [f |-> "whichplan", phrase |-> "plan apa"],
     [f |-> "hospital",  phrase |-> "rumah sakit"],
     [f |-> "status",    phrase |-> "aktif?"],
     [f |-> "claim",     phrase |-> "klaim"],
     [f |-> "benefit",   phrase |-> "manfaatnya"],
     [f |-> "policy",    phrase |-> "POL-2024"] >>

FeatureNames == {FeaturePhrases[i].f : i \in 1..Len(FeaturePhrases)}

RECURSIVE Phrases(_)
Phrases(fs) ==
  IF fs = <<>> THEN <<>> ELSE <<Head(fs).phrase>> \o Phrases(Tail(fs))

(* The utterance made of the phrases of the features F. *)
UtteranceOf(F) == Join(Phrases(SelectSeq(FeaturePhrases, LAMBDA x : x.f \in F)))

HospitalReimburse == "rumah sakit rekanan di Bandung yang reimburse"

FirstTurnInputs == {UtteranceOf(F) : F \in SUBSET FeatureNames} \cup {HospitalReimburse}

InitFirstTurn ==
  /\ \E raises \in BOOLEAN :
       memo = [InitialMemo EXCEPT !.nasabah_key_no_polis = detect_nasabah_no_polis_key(raises),
                                  !.greeted = TRUE]
  /\ \E q \in FirstTurnInputs : state = NewState(q)
  /\ pc = "supervisor"
  /\ visited = <<>>
  /\ calls = <<>>
  /\ turns = 1
  /\ memo0 = memo
  /\ last_set = NoSlots
  /\ llm_reply = NotInvoked
  /\ parked = Nobody

NextFirstTurn == Supervisor

SpecFirstTurn == InitFirstTurn /\ [][NextFirstTurn]_vars

(***************************************************************************)
(* The customer lookup on its own: nasabah_node is entered with a policy   *)
(* number as the supervisor left it in the turn state.                     *)
(***************************************************************************)
LookupInputs == {"pol-002-2024", "POL0022024", "AB-1234", "XY-7777"}

InitLookup ==
  /\ \E raises \in BOOLEAN :
       memo = [InitialMemo EXCEPT !.nasabah_key_no_polis = detect_nasabah_no_polis_key(raises),
                                  !.greeted = TRUE, !.last_intent = "policy_status"]
  /\ \E raw \in LookupInputs :
       /\ state = [NewState(raw) EXCEPT
                     !.no_polis = raw, !.intent = "policy_status", !.rs_mode = "all",
                     !.debug = [nasabah_key_no_polis |-> memo.nasabah_key_no_polis]]
  /\ pc = "nasabah"
  /\ visited = <<"supervisor", "requirements">>
  /\ calls = <<>>
  /\ turns = 1
  /\ memo0 = memo
  /\ last_set = NoSlots
  /\ llm_reply = NotInvoked
  /\ parked = Nobody

NextLookup == Nasabah

SpecLookup == InitLookup /\ [][NextLookup]_vars

(***************************************************************************)
(* The evidence decision on its own: decision_node is entered with the     *)
(* chunks polis_node left in the turn state.                               *)
(***************************************************************************)
Filler20 == "ketentuan umum ini. "
Filler80 == Filler20 \o Filler20 \o Filler20 \o Filler20
(* A text of 319 characters after strip() without any scored keyword. *)
LongText == Filler80 \o Filler80 \o Filler80 \o Filler80

ChunkTexts ==
  { "", "  ", "Info klaim", "Formulir klaim dan kwitansi", "BAB IV LIMIT DAN PLAN",
    "Limit tahunan Gold Rp200", "Manfaat rawat inap Gold", "Ketentuan umum", LongText }

Chunks == {[page |-> "3", source |-> "polis.pdf", text |-> t] : t \in ChunkTexts}

(* Number of chunks of a retrieved list. *)
MaxChunks == 2

EvidenceLists == UNION {[1..n -> Chunks] : n \in 0..MaxChunks}

(* Intent and plan tier of the turns that reach polis_node with nothing    *)
(* missing.                                                                *)
EvidenceTurns ==
  { <<"claim_requirements", None>>, <<"claim_requirements", "Gold">>,
    <<"limit_plan", "Gold">>, <<"limit_plan", "Silver">>,
    <<"plan_benefit", "Gold">>, <<"plan_benefit", "Silver">> }

InitEvidence ==
  /\ \E t \in EvidenceTurns :
       /\ memo = [InitialMemo EXCEPT
                    !.nasabah_key_no_polis = "nomor_polis", !.greeted = TRUE,
                    !.last_intent = t[1],
                    !.pending_plan_for_benefit =
                       IF t[1] = "plan_benefit" THEN t[2] ELSE None]
       /\ \E evs \in EvidenceLists :
            state = [NewState("x") EXCEPT
                       !.intent = t[1], !.plan_asked = t[2], !.rs_mode = "all",
                       !.polis_evidence = evs,
                       !.debug = [nasabah_key_no_polis |-> "nomor_polis"]]
  /\ pc = "decision"
  /\ visited = <<"supervisor", "requirements", "polis">>
  /\ calls = <<>>
  /\ turns = 1
  /\ memo0 = memo
  /\ last_set = NoSlots
  /\ llm_reply = NotInvoked
  /\ parked = Nobody

NextEvidence == Decision

SpecEvidence == InitEvidence /\ [][NextEvidence]_vars

(***************************************************************************)
(* Two sessions.  Each browser session has its own st.session_state, and   *)
(* the script runs of different sessions are scheduled in turn at any      *)
(* point between two nodes.  The variables describe the run scheduled now, *)
(* parked the other one.                                                   *)
(***************************************************************************)
SessionUtterances ==
  {"rumah sakit rekanan", "rs bandung", "apakah polis saya masih aktif?", "limit goldnya", "ya"}

(* The memo of a session whose page has been loaded. *)
LoadedMemo ==
  [InitialMemo EXCEPT !.nasabah_key_no_polis = detect_nasabah_no_polis_key(FALSE),
                      !.greeted = TRUE]

(* The run scheduled now, as it is parked: sid names its session, running  *)
(* the session that is scheduled instead.                                  *)
Park(id, next, m) ==
  [sid |-> id, running |-> next, memo |-> m, state |-> state, pc |-> pc,
   visited |-> visited, calls |-> calls, turns |-> turns, memo0 |-> memo0,
   last_set |-> last_set, llm_reply |-> llm_reply]

(* The parked run is resumed, with the memo m. *)
Resume(m) ==
  /\ memo' = m
  /\ state' = parked.state
  /\ pc' = parked.pc
  /\ visited' = parked.visited
  /\ calls' = parked.calls
  /\ turns' = parked.turns
  /\ memo0' = parked.memo0
  /\ last_set' = parked.last_set
  /\ llm_reply' = parked.llm_reply

(* A switch after which both runs work on the memo of the run scheduled    *)
(* now: one memo for all sessions.                                         *)
SwitchKeepMemo ==
  /\ parked.sid /= "none"
  /\ Resume(memo)
  /\ parked' = Park(parked.running, parked.sid, memo)

(* The scheduler switches to the run of the other session; each run keeps  *)
(* the st.session_state.memo of its session.                               *)
SwitchSession ==
  /\ parked.sid /= "none"
  /\ Resume(parked.memo)
  /\ parked' = Park(parked.running, parked.sid, memo)

(* Sessions A and B have each received a first message. *)
InitSessions ==
  /\ memo = LoadedMemo
  /\ \E qa \in SessionUtterances : state = NewState(qa)
  /\ pc = "supervisor"
  /\ visited = <<>>
  /\ calls = <<>>
  /\ turns = 1
  /\ memo0 = memo
  /\ last_set = NoSlots
  /\ llm_reply = NotInvoked
  /\ \E qb \in SessionUtterances :
       parked = [sid |-> "B", running |-> "A", memo |-> LoadedMemo, state |-> NewState(qb),
                 pc |-> "supervisor", visited |-> <<>>, calls |-> <<>>, turns |-> 1,
                 memo0 |-> LoadedMemo, last_set |-> NoSlots, llm_reply |-> NotInvoked]

NextSessions ==
  \/ Supervisor
  \/ Requirements
  \/ Rs
  \/ Decision
  \/ Compose
  \/ SwitchSession

SpecSessions == InitSessions /\ [][NextSessions]_vars

(*--------------------------------------------------------------------------*)
(* Two turns of ONE session in flight: both runs read and write the same    *)
(* st.session_state.memo, and the scheduler may switch between them after   *)
(* any node.                                                                *)
(*--------------------------------------------------------------------------*)

(* A turn that has passed supervisor_node and has not ended. *)
MidTurn(p) == p \notin {"supervisor", "end", "failed"}

(* The scheduler switches to the other turn of the session. The memo stays  *)
(* where it is; overlap records that a turn was left between two nodes.     *)
SwitchTurn ==
  /\ parked.sid /= "none"
  /\ Resume(memo)
  /\ parked' = Park(parked.running, parked.sid, memo)
                 @@ ("overlap" :> (parked.overlap \/ MidTurn(pc)))

(* Two messages of the same session are waiting to be handled. *)
InitTurns ==
  /\ memo = LoadedMemo
  /\ \E q1 \in SessionUtterances : state = NewState(q1)
  /\ pc = "supervisor"
  /\ visited = <<>>
  /\ calls = <<>>
  /\ turns = 1
  /\ memo0 = memo
  /\ last_set = NoSlots
  /\ llm_reply = NotInvoked
  /\ \E q2 \in SessionUtterances :
       parked = [sid |-> "T2", running |-> "T1", memo |-> LoadedMemo, state |-> NewState(q2),
                 pc |-> "supervisor", visited |-> <<>>, calls |-> <<>>, turns |-> 1,
                 memo0 |-> LoadedMemo, last_set |-> NoSlots, llm_reply |-> NotInvoked,
                 overlap |-> FALSE]

NextTurns ==
  \/ Supervisor
  \/ Requirements
  \/ Rs
  \/ Decision
  \/ Compose
  \/ SwitchTurn

SpecTurns == InitTurns /\ [][NextTurns]_vars

(*--------------------------------------------------------------------------*)
(* compact applied to a token, and again to its own result.                 *)
(*--------------------------------------------------------------------------*)
MaxTokenLen == 3

(* Letters of both cases, digits and punctuation of policy-number tokens. *)
Alphabet == {"a", "p", "L", "Z", "0", "7", "-", " ", "/", "."}

RECURSIVE TokensUpTo(_)
TokensUpTo(n) ==
  IF n = 0 THEN {""}
  ELSE {t \o c : t \in TokensUpTo(n - 1), c \in Alphabet \cup {""}}

InitCompact ==
  /\ memo = InitialMemo
  /\ \E t \in TokensUpTo(MaxTokenLen) : state = [token |-> t, out |-> <<>>]
  /\ pc = "compact"
  /\ visited = <<>>
  /\ calls = <<>>
  /\ turns = 0
  /\ memo0 = memo
  /\ last_set = NoSlots
  /\ llm_reply = NotInvoked
  /\ parked = Nobody

(* compact(token), then compact of what the first call returned. *)
Compact ==
  /\ pc = "compact"
  /\ Len(state.out) < 2
  /\ state' = [state EXCEPT !.out = Append(@, compact(IF @ = <<>> THEN state.token
                                                      ELSE @[Len(@)]))]
  /\ UNCHANGED <<memo, pc, visited, calls, turns, memo0, last_set, llm_reply, parked>>

NextCompact == Compact

SpecCompact == InitCompact /\ [][NextCompact]_vars

(*--------------------------------------------------------------------------*)
(* decision_node on the hospital lists tool_lookup_rs can return: up to     *)
(* ten payloads, each with a name under one of the four aliases, the        *)
(* cashless flag as the store holds it.                                     *)
(*--------------------------------------------------------------------------*)
RsPayloads ==
  << <<KV("nama_rs", "RS Asih"), KV("kota", "Bandung"), KV("cashless", "Ya")>>,
     <<KV("nama", "RS Bakti"), KV("kota", "Bandung"), KV("cashless", "tidak")>>,
     <<KV("rumah_sakit", "RS Citra"), KV("kota", "Bandung"), KV("cashless", " TRUE ")>>,
     <<KV("rs", "RS Duta"), KV("kota", "Bandung"), KV("cashless", "0")>>,
     <<KV("nama_rs", "RS Esa"), KV("kota", "Bandung"), KV("cashless", "mungkin")>>,
     <<KV("nama", "RS Fajar"), KV("kota", "Bandung")>> >>

(* Length of a returned hospital list. *)
MaxRsList == 7

(* Lists of n payloads taken around RsPayloads from a, in steps of b. *)
RsLists ==
  { [i \in 1..n |-> RsPayloads[((a + i * b) % Len(RsPayloads)) + 1]] :
      n \in 0..MaxRsList, a \in 0..(Len(RsPayloads) - 1), b \in 1..3 }

InitRsDecision ==
  /\ memo = [InitialMemo EXCEPT
               !.nasabah_key_no_polis = "nomor_polis", !.greeted = TRUE,
               !.last_intent = "rs_search", !.kota = "Bandung"]
  /\ \E l \in RsLists :
       state = [NewState("rs bandung") EXCEPT
                  !.intent = "rs_search", !.kota = "Bandung", !.rs_mode = "all",
                  !.rs_list = l, !.debug = [nasabah_key_no_polis |-> "nomor_polis"]]
  /\ pc = "decision"
  /\ visited = <<"supervisor", "requirements", "rs">>
  /\ calls = <<>>
  /\ turns = 1
  /\ memo0 = memo
  /\ last_set = NoSlots
  /\ llm_reply = NotInvoked
  /\ parked = Nobody

NextRsDecision == Decision

SpecRsDecision == InitRsDecision /\ [][NextRsDecision]_vars

(*--------------------------------------------------------------------------*)
(* decision_node on the customer records nasabah_node can leave in the      *)
(* turn state: none, or a payload of the nasabah collection whose keys and  *)
(* values are whatever the ingested sheet had.                              *)
(*--------------------------------------------------------------------------*)
RECORD_INTENTS == {"policy_status", "policy_plan_lookup", "cashless_policy"}

RecordFields ==
  { KV("status_polis", "Aktif"), KV("Status Polis", " Lapse "), KV("status", ""),
    KV("tanggal_akhir", "2026-11-06"), KV("expired_date", "2025-12-30"),
    KV("tgl_akhir", "31/12/2025"), KV("end_date", "besok"),
    KV("plan", "Gold"), KV("jenis_plan", ""),
    KV("metode_klaim", "Cashless"), KV("cashless", "ya"), KV("claim_method", "Reimburse"),
    KV("alamat", "Bandung") }

(* A record has the policy number, the name and up to two other columns. *)
Records ==
  {Nil}
    \cup {<<KV("nomor_polis", "POL-2024"), KV("nama", "Budi"), f>> : f \in RecordFields}
    \cup {<<KV("nomor_polis", "POL-2024"), f, g>> : f, g \in RecordFields}

InitRecord ==
  /\ \E intent \in RECORD_INTENTS :
       /\ memo = [InitialMemo EXCEPT
                    !.nasabah_key_no_polis = "nomor_polis", !.greeted = TRUE,
                    !.last_intent = intent, !.no_polis = "POL-2024"]
       /\ \E nas \in Records :
            state = [NewState("x") EXCEPT
                       !.intent = intent, !.no_polis = "POL-2024", !.rs_mode = "all",
                       !.nasabah = nas,
                       !.debug = [nasabah_key_no_polis |-> "nomor_polis"]]
  /\ pc = "decision"
  /\ visited = <<"supervisor", "requirements", "nasabah">>
  /\ calls = <<>>
  /\ turns = 1
  /\ memo0 = memo
  /\ last_set = NoSlots
  /\ llm_reply = NotInvoked
  /\ parked = Nobody

NextRecord == Decision

SpecRecord == InitRecord /\ [][NextRecord]_vars

(*--------------------------------------------------------------------------*)
(* One app.invoke: the graph runs on one message from supervisor to its     *)
(* end, in a session that is new, has a policy number and a city in its     *)
(* memo, or has a question pending.                                         *)
(*--------------------------------------------------------------------------*)
GraphMemos ==
  { LoadedMemo,
    [LoadedMemo EXCEPT !.no_polis = "POL-2024", !.kota = "Bandung",
                       !.last_intent = "rs_search", !.topics = <<"RS rekanan">>],
    [LoadedMemo EXCEPT !.pending_slot = "no_polis", !.last_intent = "cashless_policy"] }

InitGraph ==
  /\ memo \in GraphMemos
  /\ \E q \in Utterances : state = NewState(q)
  /\ pc = "supervisor"
  /\ visited = <<>>
  /\ calls = <<>>
  /\ turns = 1
  /\ memo0 = memo
  /\ last_set = NoSlots
  /\ llm_reply = NotInvoked
  /\ parked = Nobody

NextGraph ==
  \/ Supervisor
  \/ Requirements
  \/ Rs
  \/ Nasabah
  \/ Polis
  \/ Decision
  \/ Compose

(* The node that is due returns, with a result or an exception, and the    *)
(* graph moves on along its edge: in every state with pc at a node, each    *)
(* step of NextGraph is such a step and one is possible.                    *)
NodeReturns ==
  /\ pc \in {"supervisor", "requirements", "rs", "nasabah", "polis", "decision", "compose"}
  /\ pc' \in {"requirements", "rs", "nasabah", "polis", "decision", "compose", "end", "failed"}
  /\ pc' /= pc

(* app.invoke runs the graph synchronously to its end. *)
SpecGraph == InitGraph /\ [][NextGraph]_vars /\ WF_pc(NodeReturns)

(*--------------------------------------------------------------------------*)
(* decision_node in a session that has already recorded topics: the topic   *)
(* list is any list of distinct topics, as earlier turns can have left it.  *)
(*--------------------------------------------------------------------------*)
TOPICS == {"Status polis", "Plan polis", "Cashless", "RS rekanan"}

TopicLists ==
  {t \in UNION {[1..n -> TOPICS] : n \in 0..Cardinality(TOPICS)} :
     \A i, j \in 1..Len(t) : i /= j => t[i] /= t[j]}

InitTopics ==
  /\ \E intent \in RECORD_INTENTS \cup {"rs_search"}, t \in TopicLists :
       /\ memo = [InitialMemo EXCEPT
                    !.nasabah_key_no_polis = "nomor_polis", !.greeted = TRUE,
                    !.last_intent = intent, !.no_polis = "POL-2024", !.kota = "Bandung",
                    !.topics = t]
       /\ state = [NewState("x") EXCEPT
                     !.intent = intent, !.no_polis = "POL-2024", !.kota = "Bandung",
                     !.rs_mode = "all", !.nasabah = NasabahStore[1],
                     !.rs_list = <<RsStore[1]>>,
                     !.debug = [nasabah_key_no_polis |-> "nomor_polis"]]
  /\ pc = "decision"
  /\ visited = <<"supervisor", "requirements">>
  /\ calls = <<>>
  /\ turns = 1
  /\ memo0 = memo
  /\ last_set = NoSlots
  /\ llm_reply = NotInvoked
  /\ parked = Nobody

NextTopics == Decision

SpecTopics == InitTopics /\ [][NextTopics]_vars

(*--------------------------------------------------------------------------*)
(* The transcript st.session_state.chat_memory under a sequence of          *)
(* remember(role, content) calls; the n-th call has the content n.          *)
(*--------------------------------------------------------------------------*)
MAX_TURNS == 5

(* remember that cuts the transcript from the wrong side. *)
RememberKeepOldest(chat_memory, role, content) ==
  LET appended == Append(chat_memory, [role |-> role, content |-> content])
      keep == 2 * MAX_TURNS
  IN  IF Len(appended) > keep THEN SubSeq(appended, 1, keep) ELSE appended

(* remember(role, content): the new chat_memory. *)
remember(chat_memory, role, content) ==
  LET appended == Append(chat_memory, [role |-> role, content |-> content])
      keep == 2 * MAX_TURNS
  IN  IF Len(appended) > keep THEN LastN(appended, keep) ELSE appended

(* Number of remember calls of a run. *)
MaxRemember == 12

InitRemember ==
  /\ memo = InitialMemo
  /\ state = [chat_memory |-> <<>>, said |-> <<>>]
  /\ pc = "remember"
  /\ visited = <<>>
  /\ calls = <<>>
  /\ turns = 0
  /\ memo0 = memo
  /\ last_set = NoSlots
  /\ llm_reply = NotInvoked
  /\ parked = Nobody

(* One call of remember; said is everything that was ever passed to it. *)
Remember ==
  /\ pc = "remember"
  /\ Len(state.said) < MaxRemember
  /\ \E role \in {"user", "assistant"} :
       state' = [chat_memory |-> remember(state.chat_memory, role, Len(state.said) + 1),
                 said |-> Append(state.said, [role |-> role, content |-> Len(state.said) + 1])]
  /\ UNCHANGED <<memo, pc, visited, calls, turns, memo0, last_set, llm_reply, parked>>

NextRemember == Remember

SpecRemember == InitRemember /\ [][NextRemember]_vars

(*--------------------------------------------------------------------------*)
(* A session of up to MaxModeTurns messages with and without a cue for the  *)
(* hospital mode.                                                           *)
(*--------------------------------------------------------------------------*)
MaxModeTurns == 3

ModeUtterances ==
  { "rs bandung",
    "rs cashless jakarta",
    "rumah sakit non cashless di medan",
    "rs yang gak cashless",
    "bisa cashless ab-1234",
    "rembures",
    "refund",
    "plan saya apa" }

(* A message of the session arrives. *)
ModeInput ==
  /\ pc = "idle"
  /\ turns < MaxModeTurns
  /\ \E q \in ModeUtterances :
       /\ memo' = Rerun(memo, FALSE)
       /\ state' = NewState(q)
  /\ pc' = "supervisor"
  /\ visited' = <<>>
  /\ calls' = <<>>
  /\ turns' = turns + 1
  /\ memo0' = memo'
  /\ UNCHANGED <<last_set, llm_reply>>
  /\ UNCHANGED parked

InitRsMode ==
  /\ memo = [InitialMemo EXCEPT !.nasabah_key_no_polis = "nomor_polis", !.greeted = TRUE]
  /\ state = IdleState
  /\ pc = "idle"
  /\ visited = <<>>
  /\ calls = <<>>
  /\ turns = 0
  /\ memo0 = memo
  /\ last_set = NoSlots
  /\ llm_reply = NotInvoked
  /\ parked = Nobody

NextRsMode ==
  \/ ModeInput
  \/ Supervisor
  \/ Requirements
  \/ Rs
  \/ Nasabah
  \/ Polis
  \/ Decision
  \/ Compose
  \/ RenderAnswer
  \/ RenderError

SpecRsMode == InitRsMode /\ [][NextRsMode]_vars

(*--------------------------------------------------------------------------*)
(* A session with its transcript: st.session_state.messages and             *)
(* chat_memory are carried along with the turn state, under the keys        *)
(* messages and chat_memory of state. The session is about hospitals: its   *)
(* turns go through rs or straight to decision, and none of them raises.    *)
(*--------------------------------------------------------------------------*)
MaxChatTurns == 3

(* Hospital questions, cities, small talk and closing messages: none of    *)
(* them is routed to nasabah or polis.                                      *)
ChatUtterances ==
  { "rumah sakit rekanan",
    "rs bandung",
    "Bandung",
    "di jakarta aja",
    "ya",
    "ok makasih",
    "sudah cukup" }

GREETING == "Halo :) Saya CSO Asuransi Kesehatan.\n\n"

CLOSING_TEXT ==
  "Sama-sama :) Senang bisa membantu. Jika ada pertanyaan lain, silakan chat lagi ya."

Message(role, content) == [role |-> role, content |-> content]

(* messages.append(...) followed by remember(...). *)
Say(tr, role, content) ==
  [messages    |-> Append(tr.messages, Message(role, content)),
   chat_memory |-> remember(tr.chat_memory, role, content)]

(* The transcript carried by state. *)
Transcript == [messages |-> state.messages, chat_memory |-> state.chat_memory]

(* The session after the first run of the script: the greeting is shown. *)
InitChat ==
  /\ memo = [InitialMemo EXCEPT !.nasabah_key_no_polis = detect_nasabah_no_polis_key(FALSE),
                                !.greeted = TRUE]
  /\ state = Say([messages |-> <<>>, chat_memory |-> <<>>], "assistant", GREETING) @@ IdleState
  /\ pc = "idle"
  /\ visited = <<>>
  /\ calls = <<>>
  /\ turns = 0
  /\ memo0 = memo
  /\ last_set = NoSlots
  /\ llm_reply = NotInvoked
  /\ parked = Nobody

(* A message that is not a closing one: it is recorded and the graph is     *)
(* invoked on it.                                                           *)
ChatInput ==
  /\ pc = "idle"
  /\ turns < MaxChatTurns
  /\ \E q \in ChatUtterances, raises \in BOOLEAN :
       /\ ~is_closing_message(q)
       /\ (Truthy(memo.nasabah_key_no_polis) => ~raises)
       /\ memo' = Rerun(memo, raises)
       /\ state' = Say(Transcript, "user", q) @@ NewState(q)
  /\ pc' = "supervisor"
  /\ visited' = <<>>
  /\ calls' = <<>>
  /\ turns' = turns + 1
  /\ memo0' = memo'
  /\ UNCHANGED <<last_set, llm_reply>>
  /\ UNCHANGED parked

(* A closing handler that also drops the pending slot. *)
ChatClosingDisarm ==
  /\ pc = "idle"
  /\ turns < MaxChatTurns
  /\ \E q \in ChatUtterances, raises \in BOOLEAN :
       /\ is_closing_message(q)
       /\ (Truthy(memo.nasabah_key_no_polis) => ~raises)
       /\ memo' = [Rerun(memo, raises) EXCEPT !.pending_slot = None]
       /\ state' = Say(Say(Transcript, "user", q), "assistant", CLOSING_TEXT) @@ IdleState
  /\ turns' = turns + 1
  /\ memo0' = memo'
  /\ UNCHANGED <<pc, visited, calls, last_set, llm_reply>>
  /\ UNCHANGED parked

(* A closing message: it is recorded, answered with the closing text, and   *)
(* the script stops.                                                        *)
ChatClosing ==
  /\ pc = "idle"
  /\ turns < MaxChatTurns
  /\ \E q \in ChatUtterances, raises \in BOOLEAN :
       /\ is_closing_message(q)
       /\ (Truthy(memo.nasabah_key_no_polis) => ~raises)
       /\ memo' = Rerun(memo, raises)
       /\ state' = Say(Say(Transcript, "user", q), "assistant", CLOSING_TEXT) @@ IdleState
  /\ turns' = turns + 1
  /\ memo0' = memo'
  /\ UNCHANGED <<pc, visited, calls, last_set, llm_reply>>
  /\ UNCHANGED parked

(* app.invoke returned: the answer is recorded and shown. *)
ChatRenderAnswer ==
  /\ pc = "end"
  /\ pc' = "idle"
  /\ state' = Say(Transcript, "assistant", state.answer) @@ IdleState
  /\ visited' = <<>>
  /\ calls' = <<>>
  /\ memo0' = memo
  /\ last_set' = RecordSlots(last_set, state)
  /\ llm_reply' = NotInvoked
  /\ UNCHANGED <<memo, turns, parked>>

NextChat ==
  \/ ChatInput
  \/ ChatClosing
  \/ Supervisor
  \/ Requirements
  \/ Rs
  \/ Decision
  \/ Compose
  \/ ChatRenderAnswer

SpecChat == InitChat /\ [][NextChat]_vars

(***************************************************************************)
(* PROPERTIES                                                              *)
(***************************************************************************)
TurnEnded == pc = "end"

Entities == extract_entities(state.user_query)

(* The utterance is nothing but the name of a known city. *)
OnlyACity(q) == \E i \in 1..Len(KNOWN_CITIES) : low(q) = KNOWN_CITIES[i]

(* The utterance supplies a value for the slot. *)
Mentions(q, slot) ==
  IF slot = "rs_mode" THEN Truthy(detect_rs_mode(q))
  ELSE Truthy(extract_entities(q)[slot])

(* C1: when the previous turn left pending_slot = kota and last_intent = I *)
(* and the utterance is only a known city, the turn ends with intent I,    *)
(* kota set to that city and no pending slot.                              *)
C1_PendingCityContinuesIntent ==
  (/\ TurnEnded
   /\ memo0.pending_slot = "kota"
   /\ Truthy(memo0.last_intent)
   /\ OnlyACity(state.user_query))
  => /\ state.intent = memo0.last_intent
     /\ state.kota = Capitalize(low(state.user_query))
     /\ memo.pending_slot = None

(* C2: at the end of a completed turn, missing_fields is non-empty exactly *)
(* when the decision's status is NEED_INPUT.                               *)
C2_MissingIffNeedInput ==
  TurnEnded => ((state.missing_fields /= <<>>) <=> (state.decision.status = "NEED_INPUT"))

C2_Witness ==
  /\ TurnEnded
  /\ state.missing_fields /= <<>>
  /\ state.decision.status = "NEED_INPUT"

(* The slot is neither in the utterance nor in the memo the turn started   *)
(* with (the memo keeps no plan_asked).                                    *)
Absent(slot) ==
  /\ ~Truthy(Entities[slot])
  /\ slot \in {"no_polis", "kota"} => ~Truthy(memo0[slot])

LOOKUP_NODES == {"rs", "nasabah", "polis"}

(* C3: a turn whose intent requires a slot that is absent from utterance   *)
(* and memory ends with status NEED_INPUT, need = [slot], pending_slot =   *)
(* slot, no lookup node run and no store queried; a turn with nothing      *)
(* missing ends with no pending slot.                                      *)
C3_MissingSlotShortCircuits ==
  /\ TurnEnded =>
       LET need == required_fields(state.intent)
       IN  (need /= <<>> /\ Absent(need[1])) =>
             /\ state.decision.status = "NEED_INPUT"
             /\ state.decision.need = need
             /\ memo.pending_slot = need[1]
             /\ \A i \in 1..Len(visited) : visited[i] \notin LOOKUP_NODES
             /\ calls = <<>>
  /\ (pc \in {"end", "failed"} /\ state.missing_fields = <<>>) => memo.pending_slot = None

C3_Witness ==
  /\ TurnEnded
  /\ state.intent = "limit_plan"
  /\ Absent("plan_asked")
  /\ state.decision.status = "NEED_INPUT"
  /\ memo.pending_slot = "plan_asked"
  /\ visited = <<"supervisor", "requirements", "decision", "compose">>

(* C4: once a turn has resolved a slot (no_polis, kota, plan_asked,        *)
(* rs_mode), every later turn whose utterance does not supply that slot    *)
(* resolves it to the same value.                                          *)
C4_SlotsPersist ==
  TurnEnded =>
    \A slot \in SLOTS :
      (Truthy(last_set[slot]) /\ ~Mentions(state.user_query, slot))
        => state[slot] = last_set[slot]

(* C5: a turn whose utterance yields no policy number from entity          *)
(* extraction never has the intent provide_policy_number.                  *)
C5_NoPolicyNoProvide ==
  (pc \notin {"idle", "supervisor"} /\ ~Truthy(Entities.no_polis))
    => state.intent /= "provide_policy_number"

C5_Witness ==
  /\ TurnEnded
  /\ memo0.pending_slot /= None
  /\ ~Truthy(Entities.no_polis)
  /\ state.intent = memo0.last_intent
  /\ state.intent = "policy_status"

(* C6: with no pending slot, "rumah sakit rekanan di Bandung yang          *)
(* reimburse" is classified rs_search with kota Bandung and rs_mode        *)
(* non_cashless.                                                           *)
C6_HospitalReimburseIsRsSearch ==
  (pc = "requirements" /\ memo0.pending_slot = None
   /\ state.user_query = HospitalReimburse)
  => /\ state.intent = "rs_search"
     /\ state.kota = "Bandung"
     /\ state.rs_mode = "non_cashless"

(* The cascade of the specification over the features an utterance was     *)
(* built from.  A policy number is bare when it is the only feature.       *)
ReferenceIntent(F) ==
  IF F = {"policy"} THEN "provide_policy_number"
  ELSE IF {"benefit", "tier"} \subseteq F THEN "plan_benefit"
  ELSE IF "claim" \in F THEN "claim_requirements"
  ELSE IF "status" \in F THEN "policy_status"
  ELSE IF "hospital" \in F THEN "rs_search"
  ELSE IF "whichplan" \in F THEN "policy_plan_lookup"
  ELSE IF "cashless" \in F THEN "cashless_policy"
  ELSE IF {"limit", "tier"} \subseteq F THEN "limit_plan"
  ELSE "unknown"

(* C7: with no pending slot, the intent of an utterance is that of the     *)
(* first-match cascade over its keyword features, for every combination of *)
(* features.                                                               *)
C7_ClassifyIsCascade ==
  (pc = "requirements" /\ memo0.pending_slot = None) =>
    \A F \in SUBSET FeatureNames :
      state.user_query = UtteranceOf(F) => state.intent = ReferenceIntent(F)

C7_Witness ==
  /\ pc = "requirements"
  /\ memo0.pending_slot = None
  /\ state.user_query = UtteranceOf({"cashless", "limit", "tier"})
  /\ state.intent = "cashless_policy"

(* Some query of this turn to the store raised. *)
StoreFailed(store) ==
  \E i \in 1..Len(calls) : calls[i].store = store /\ calls[i].out = "error"

Visited(node) == \E i \in 1..Len(visited) : visited[i] = node

(* C8: when a query of the policy-document store raises in a               *)
(* claim_requirements, limit_plan or plan_benefit turn, no exception       *)
(* reaches the graph: the turn goes on with empty evidence and completes   *)
(* with status NOT_FOUND and the templated answer.                         *)
C8_PolisFailureIsNotFound ==
  StoreFailed("polis") =>
    /\ pc /= "failed"
    /\ pc \in {"decision", "compose", "end"} => state.polis_evidence = <<>>
    /\ pc \in {"compose", "end"} => state.decision.status = "NOT_FOUND"
    /\ TurnEnded => state.answer /= None

(* Every query the customer lookup issued failed or found nothing. *)
AllAttemptsFailed ==
  \A i \in 1..Len(calls) : calls[i].out \in {"error", "miss", "empty"}

(* C9: the customer lookup never raises: a failed or empty exact query is  *)
(* followed by the query of the next variant (after the last variant, by   *)
(* the semantic fallback), an error of the fallback is swallowed, and when *)
(* every attempt fails or misses the record is none, found is false and    *)
(* the decision is NOT_FOUND.                                              *)
C9_NasabahLookupNeverRaises ==
  Visited("nasabah") =>
    /\ pc /= "failed"
    /\ \A i \in 1..Len(calls) :
         (calls[i].op = "scroll" /\ calls[i].out \in {"error", "miss"}) =>
           /\ calls[i].arg = state.debug.nasabah_tried[i]
           /\ i < Len(calls)
           /\ calls[i + 1].op =
                IF i < Len(state.debug.nasabah_tried) THEN "scroll" ELSE "query_points"
    /\ AllAttemptsFailed =>
         /\ state.nasabah = Nil
         /\ ~state.debug.nasabah_found
         /\ pc \in {"compose", "end"} => state.decision.status = "NOT_FOUND"

C9_Witness ==
  /\ TurnEnded
  /\ Visited("nasabah")
  /\ Len(calls) = 3
  /\ calls[1].out = "error"
  /\ calls[2].out = "error"
  /\ calls[3].out = "error"
  /\ state.decision.status = "NOT_FOUND"

(* C10: the partner-hospital lookup returns at most 10 records, each with  *)
(* a non-empty name under one of the four aliases; when its query raises   *)
(* it returns the empty list and the turn completes with NOT_FOUND.        *)
C10_RsLookupBoundedNamed ==
  Visited("rs") =>
    /\ pc /= "failed"
    /\ Len(state.rs_list) <= 10
    /\ \A i \in 1..Len(state.rs_list) :
         \E a \in {"nama_rs", "nama", "rumah_sakit", "rs"} :
           Truthy(Get(state.rs_list[i], a))
    /\ StoreFailed("rs_rekanan") =>
         /\ state.rs_list = <<>>
         /\ pc \in {"compose", "end"} => state.decision.status = "NOT_FOUND"

C10_Witness ==
  /\ TurnEnded
  /\ Visited("rs")
  /\ Len(state.rs_list) = 10
  /\ state.decision.status = "FOUND"

(* The keys of the memo that make up Session Memory. *)
MEMORY_FIELDS ==
  {"no_polis", "kota", "pending_slot", "last_intent", "last_rs_mode", "topics",
   "pending_plan_for_benefit"}

(* C11: when a turn fails with an exception inside the pipeline, Session   *)
(* Memory after the failed turn equals Session Memory before the turn.     *)
C11_FailedTurnLeavesMemo ==
  pc = "failed" => \A f \in MEMORY_FIELDS : memo[f] = memo0[f]

(* The variants in the list tried. *)
TriedSet == {state.debug.nasabah_tried[i] : i \in 1..Len(state.debug.nasabah_tried)}

(* The record of the customer store keyed "POL-002-2024". *)
Pol002Record == NasabahStore[4]

(* The exact query for the stored form was issued with the key of the      *)
(* store and did not raise.                                                *)
StoredFormAnswered ==
  /\ state.debug.nasabah_key_used = "nomor_polis"
  /\ ~\E i \in 1..Len(calls) : calls[i].arg = "POL-002-2024" /\ calls[i].out = "error"

EVIDENCE_INTENTS == {"claim_requirements", "limit_plan", "plan_benefit"}

(* The chunks of the turn's evidence that have a text, and their scores. *)
ScoredChunks == {i \in 1..Len(state.polis_evidence) : low(state.polis_evidence[i].text) /= ""}

ChunkScore(i) ==
  EvidenceScore(state.intent, low(state.polis_evidence[i].text),
                low(Or(state.plan_asked, Or(memo.pending_plan_for_benefit, ""))))

Floor == IF state.intent = "claim_requirements" THEN 3 ELSE 1

(* C13: for claim_requirements the decision is FOUND only if the chunk it  *)
(* cites scores at least 3, for limit_plan and plan_benefit at least 1;    *)
(* when no chunk reaches the floor (a single low-scoring chunk, an empty   *)
(* list, only chunks without text) the decision is NOT_FOUND and cites no  *)
(* chunk.                                                                  *)
C13_EvidenceFloor ==
  (pc = "compose" /\ state.intent \in EVIDENCE_INTENTS /\ state.missing_fields = <<>>) =>
    LET d == state.decision
    IN  /\ d.status \in {"FOUND", "NOT_FOUND"}
        /\ d.status = "FOUND" =>
             \E i \in ScoredChunks :
                /\ ChunkScore(i) >= Floor
                /\ \A j \in ScoredChunks : ChunkScore(j) <= ChunkScore(i)
                /\ d.quote = Prefix(norm(state.polis_evidence[i].text), 900)
        /\ (\A i \in ScoredChunks : ChunkScore(i) < Floor) => d.status = "NOT_FOUND"
        /\ d.status = "NOT_FOUND" => DOMAIN d \cap {"quote", "source", "page"} = {}

(* A single chunk that scores 2 for claim_requirements is not cited. *)
C13_Witness ==
  /\ pc = "compose"
  /\ state.intent = "claim_requirements"
  /\ Len(state.polis_evidence) = 1
  /\ ScoredChunks = {1}
  /\ ChunkScore(1) = 2
  /\ state.decision.status = "NOT_FOUND"

(* The rephrasing call of this turn gave nothing usable: it was not made   *)
(* (toggle off, or no text to rephrase), it raised, or its content is      *)
(* empty or blank.                                                         *)
NoRephrase ==
  \/ ~llm_reply.invoked
  \/ llm_reply.err
  \/ Strip(llm_reply.content) = ""

(* C14: when the rephrasing call raises, returns empty or blank content,   *)
(* or is disabled, the answer of the turn is exactly the template text of  *)
(* answer_from_decision for the decision.                                  *)
C14_RephraseFailSafe ==
  (TurnEnded /\ NoRephrase) => state.answer = answer_from_decision(state.decision)

C14_Witness ==
  /\ TurnEnded
  /\ llm_reply.invoked
  /\ llm_reply.err
  /\ state.decision.status = "FOUND"
  /\ state.answer = answer_from_decision(state.decision)

(* The numbers written in a text: its maximal runs of digits. *)
Numbers(t) ==
  {SubSeq(t, i, i + RunLen(t, i, DigitSet, Len(t)) - 1) :
     i \in {k \in 1..Len(t) : CharAt(t, k) \in DigitSet /\ CharAt(t, k - 1) \notin DigitSet}}

DECISION_TEXT_FIELDS ==
  {"no_polis_input", "no_polis", "status_polis", "plan", "metode_klaim", "kota", "page",
   "source", "quote"}

(* The texts the decision record of the turn carries. *)
DecisionTexts ==
  LET d == state.decision
  IN  {d[f] : f \in DOMAIN d \cap DECISION_TEXT_FIELDS}
      \cup (IF "rs_items" \in DOMAIN d
            THEN {d.rs_items[i].nama_rs : i \in 1..Len(d.rs_items)}
            ELSE {})

(* C15: whatever the rephrasing call returns, every number (and so every   *)
(* date) written in the answer of a completed turn is written in the       *)
(* decision record of that turn.                                           *)
C15_AnswerNumbersGrounded ==
  TurnEnded => \A n \in Numbers(state.answer) : \E v \in DecisionTexts : Contains(v, n)

(* The enumeration of intents the specification fixes. *)
IntentEnumeration ==
  {"rs_search", "policy_status", "policy_plan_lookup", "cashless_policy", "limit_plan",
   "claim_requirements", "plan_benefit", "provide_policy_number", "unknown"}

(* C16: in every reachable state the intent of a turn that has been        *)
(* classified and the stored last_intent (once a turn has stored one) are  *)
(* members of the fixed enumeration of nine intents, also when the intent  *)
(* is taken over from last_intent because a pending slot is armed.         *)
C16_IntentInEnumeration ==
  /\ memo.last_intent \in IntentEnumeration \cup {None}
  /\ pc \notin {"idle", "supervisor"} =>
       /\ state.intent \in IntentEnumeration
       /\ memo.last_intent \in IntentEnumeration

(* A turn that takes its intent over from last_intent: the city asked for  *)
(* is still pending and the utterance alone would classify otherwise.      *)
C16_Witness ==
  /\ TurnEnded
  /\ memo0.pending_slot = "kota"
  /\ memo0.last_intent = "rs_search"
  /\ ~Truthy(Entities.kota)
  /\ classify_keywords(state.user_query) = "unknown"
  /\ state.intent = "rs_search"

(* What supervisor_node and requirements_node make of the utterance q in   *)
(* a session whose memo is m: [state, memo].                               *)
AfterSupervisor(q, m) == supervisor_node(NewState(q), m)

AfterRequirements(q, m) ==
  Strict(AfterSupervisor(q, m), LAMBDA r : requirements_node(r.state, r.memo))

(* The slots and the classification of a turn state. *)
Resolved(st) ==
  [f \in {"intent", "no_polis", "kota", "plan_asked", "rs_mode", "missing_fields"} |-> st[f]]

(* The turn of the scheduled run is what its own utterance and the memo    *)
(* its session had when the turn started determine, whatever the other     *)
(* session did in between.                                                 *)
OwnTurnOnly ==
  /\ pc = "requirements" =>
       Strict(AfterSupervisor(state.user_query, memo0), LAMBDA r :
         state = r.state /\ memo = r.memo)
  /\ pc \in {"rs", "decision", "compose", "end"} =>
       Strict(AfterRequirements(state.user_query, memo0), LAMBDA r :
         /\ Resolved(state) = Resolved(r.state)
         /\ \A f \in MEMORY_FIELDS \ {"topics"} : memo[f] = r.memo[f]
         /\ pc \in {"rs", "decision"} => memo = r.memo
         /\ pc \in {"compose", "end"} =>
              (state.decision.status = "NEED_INPUT") = (r.state.missing_fields /= <<>>))

(* C17: turns of different sessions are independent: a step of the session *)
(* scheduled now leaves the memory and the turn of the other session       *)
(* unchanged, and the turn of a session is determined by its own memory    *)
(* and utterance under every interleaving with the other session's turn.   *)
C17_SessionsIndependent ==
  /\ []OwnTurnOnly
  /\ [][parked'.sid = parked.sid => parked' = parked]_vars

(* Both sessions are in the middle of a turn, with different memories. *)
C17_Witness ==
  /\ parked.sid = "A"
  /\ parked.pc = "decision"
  /\ pc = "requirements"
  /\ memo.last_intent = "policy_status"
  /\ parked.memo.last_intent = "rs_search"
  /\ parked.memo.pending_slot = "kota"

(* Both turns of the session have run to their end. *)
BothTurnsEnded ==
  /\ parked /= Nobody
  /\ pc \in {"end", "failed"}
  /\ parked.pc \in {"end", "failed"}

(* The pending slot, when armed, is a field the stored intent requires. *)
PendingMatchesIntent ==
  memo.pending_slot /= None =>
    \E i \in DOMAIN required_fields(memo.last_intent) :
      required_fields(memo.last_intent)[i] = memo.pending_slot

(* C18: Session Memory is not safe under interleaving of two turns of the   *)
(* same session. Run one after the other, in either order, two turns leave  *)
(* a memo whose pending slot is required by its last_intent; interleaved at *)
(* node granularity they can leave one that no serial order produces.       *)
C18_SerialTurnsConsistent ==
  (BothTurnsEnded /\ ~parked.overlap) => PendingMatchesIntent

(* Both turns ended after an interleaving, and the memo has pending_slot    *)
(* armed for kota although the stored last_intent requires no_polis.        *)
C18_Witness ==
  /\ BothTurnsEnded
  /\ parked.overlap
  /\ memo.last_intent = "policy_status"
  /\ memo.pending_slot = "kota"
  /\ ~PendingMatchesIntent

(* Every character of s is one of A-Z, 0-9. *)
OnlyUpperAlnum(s) ==
  \A i \in 1..Len(s) : SubSeq(s, i, i) \in UpperSet \cup DigitSet

(* C19: compact is idempotent: for every token over the alphabet,           *)
(* compact(compact(t)) = compact(t), and compact(t) has only characters in  *)
(* A-Z and 0-9.                                                             *)
C19_CompactIdempotent ==
  pc = "compact" =>
    /\ Len(state.out) >= 1 => /\ state.out[1] = compact(state.token)
                              /\ OnlyUpperAlnum(state.out[1])
    /\ Len(state.out) = 2 => state.out[2] = state.out[1]

(* compact ran twice on a token with lower case, a dash and a digit. *)
C19_Witness ==
  /\ pc = "compact"
  /\ state.token = "p-7"
  /\ state.out = <<"P7", "P7">>

(* An rs_search turn with every required slot filled has been decided. *)
RsSearchDecided ==
  /\ pc \in {"compose", "end"}
  /\ state.intent = "rs_search"
  /\ state.missing_fields = <<>>

(* C20: for an rs_search turn with no missing slot, decision.status is      *)
(* FOUND exactly when the hospital list returned by the lookup is not       *)
(* empty, and NOT_FOUND otherwise; the decision carries at most 5 items,    *)
(* one for each of the first hospitals of the list, each with a display     *)
(* name and a cashless flag that is Ya, Tidak or -.                         *)
C20_RsSearchDecision ==
  RsSearchDecided =>
    /\ state.decision.status = (IF state.rs_list /= <<>> THEN "FOUND" ELSE "NOT_FOUND")
    /\ Len(state.decision.rs_items) <= 5
    /\ Len(state.decision.rs_items) = Len(Take(state.rs_list, 5))
    /\ \A i \in 1..Len(state.decision.rs_items) :
         /\ Truthy(state.decision.rs_items[i].nama_rs)
         /\ state.decision.rs_items[i].nama_rs = rs_name(state.rs_list[i])
         /\ state.decision.rs_items[i].cashless \in {"Ya", "Tidak", "-"}

(* A list of seven hospitals was cut to five items, whose flags were        *)
(* stored as Ya, tidak, TRUE, 0 and an unknown word.                        *)
C20_Witness ==
  /\ RsSearchDecided
  /\ Len(state.rs_list) = 7
  /\ state.decision.status = "FOUND"
  /\ Len(state.decision.rs_items) = 5
  /\ {state.decision.rs_items[i].cashless : i \in 1..5} = {"Ya", "Tidak", "-"}
  /\ \E i \in 1..5 : /\ Get(state.rs_list[i], "cashless") = "mungkin"
                     /\ state.decision.rs_items[i].cashless = "-"

(* A customer-record turn with every required slot filled has been decided. *)
RecordDecided ==
  /\ pc \in {"compose", "end"}
  /\ state.intent \in RECORD_INTENTS
  /\ state.missing_fields = <<>>

(* The aliases of the field an intent reads from the record. *)
RelevantAliases(intent) ==
  IF intent = "policy_status" THEN STATUS_ALIASES
  ELSE IF intent = "policy_plan_lookup" THEN PLAN_ALIASES
  ELSE CLAIM_METHOD_ALIASES

(* Date a is not earlier than date b. *)
NotEarlier(a, b) == a[1] * 10000 + a[2] * 100 + a[3] >= b[1] * 10000 + b[2] * 100 + b[3]

(* The status of a policy_status decision taken from the expiry date end. *)
ExpiryStatusOK(d, end) ==
  /\ d.status = "FOUND"
  /\ \/ /\ d.status_polis = "Aktif (berdasarkan tanggal akhir " \o IsoFormat(end) \o ")"
        /\ \E today \in Todays : NotEarlier(end, today)
     \/ /\ d.status_polis = "Tidak aktif (berdasarkan tanggal akhir " \o IsoFormat(end) \o ")"
        /\ \E today \in Todays : ~NotEarlier(end, today)

(* C21: for policy_status, policy_plan_lookup and cashless_policy with no   *)
(* missing slot: without a customer record the status is NOT_FOUND; when    *)
(* the relevant field resolves by alias to a non-empty value it is FOUND;   *)
(* when it does not, only policy_status falls back to the expiry date       *)
(* (FOUND, Aktif for a date of today or later, Tidak aktif for an earlier   *)
(* one); in every other case it is MISSING_FIELD.                           *)
C21_RecordDecision ==
  RecordDecided =>
    Strict(find_value_by_alias(state.nasabah, RelevantAliases(state.intent)).val, LAMBDA rel :
    Strict(parse_date_any(find_value_by_alias(state.nasabah, END_DATE_ALIASES).val), LAMBDA end :
      /\ state.decision.status \in {"NOT_FOUND", "FOUND", "MISSING_FIELD"}
      /\ state.nasabah = Nil => state.decision.status = "NOT_FOUND"
      /\ (state.nasabah /= Nil /\ rel /= None) => state.decision.status = "FOUND"
      /\ (state.nasabah /= Nil /\ rel = None) =>
           IF state.intent = "policy_status" /\ end /= NoDate
           THEN ExpiryStatusOK(state.decision, end)
           ELSE state.decision.status = "MISSING_FIELD"))

(* A policy_status turn on a record with an empty status column and an      *)
(* expiry date equal to the later of the two days was decided Aktif.        *)
C21_Witness ==
  /\ RecordDecided
  /\ state.intent = "policy_status"
  /\ state.nasabah = <<KV("nomor_polis", "POL-2024"), KV("status", ""),
                       KV("tanggal_akhir", "2026-11-06")>>
  /\ state.decision.status = "FOUND"
  /\ state.decision.status_polis = "Aktif (berdasarkan tanggal akhir 2026-11-06)"

(* C22: a turn whose intent is provide_policy_number executes no lookup     *)
(* node, leaves pending_slot none, and ends with decision.status =          *)
(* NEED_CHOICE carrying the policy number extracted from the utterance.     *)
C22_PolicyNumberNeedsChoice ==
  (pc \in {"requirements", "rs", "nasabah", "polis", "decision", "compose", "end", "failed"}
     /\ state.intent = "provide_policy_number")
  => /\ pc \notin LOOKUP_NODES \cup {"failed"}
     /\ \A n \in LOOKUP_NODES : ~Visited(n)
     /\ memo.pending_slot = None
     /\ calls = <<>>
     /\ pc \in {"compose", "end"} =>
          /\ state.decision.status = "NEED_CHOICE"
          /\ state.decision.no_polis /= None
          /\ state.decision.no_polis = extract_entities(state.user_query).no_polis

(* The pending question for the policy number was answered with the bare    *)
(* number: the turn ended with NEED_CHOICE for POL-2024.                    *)
C22_Witness ==
  /\ pc = "end"
  /\ state.intent = "provide_policy_number"
  /\ memo0.pending_slot = "no_polis"
  /\ state.decision.status = "NEED_CHOICE"
  /\ state.decision.no_polis = "POL-2024"
  /\ visited = <<"supervisor", "requirements", "decision", "compose">>

(* The turn started with a pending slot armed, and its utterance has no     *)
(* value for that slot.                                                     *)
PendingNotSupplied ==
  /\ pc \in {"requirements", "rs", "nasabah", "polis", "decision", "compose", "end", "failed"}
  /\ memo0.pending_slot /= None
  /\ ~Mentions(state.user_query, memo0.pending_slot)

(* Such a turn reuses last_intent, asks for the same slot again and leaves  *)
(* pending_slot and last_intent as they were.                               *)
PendingTurnRepeats ==
  PendingNotSupplied =>
    /\ state.intent = memo0.last_intent
    /\ memo.last_intent = memo0.last_intent
    /\ memo.pending_slot = memo0.pending_slot
    /\ pc \in {"requirements", "decision", "compose", "end"}
    /\ pc /= "requirements" => state.missing_fields = <<memo0.pending_slot>>
    /\ pc \in {"compose", "end"} =>
         /\ state.decision.status = "NEED_INPUT"
         /\ state.decision.need = <<memo0.pending_slot>>

(* C23: while a pending slot is armed, a turn whose utterance does not      *)
(* supply that slot skips classification and reuses last_intent whatever    *)
(* the utterance says, ends again with NEED_INPUT for the same slot and     *)
(* leaves pending_slot and last_intent unchanged; an armed pending slot     *)
(* changes only in a turn whose utterance supplies it.                      *)
C23_PendingSlotHolds ==
  /\ []PendingTurnRepeats
  /\ [][(memo.pending_slot /= None /\ memo'.pending_slot /= memo.pending_slot)
          => Mentions(state.user_query, memo.pending_slot)]_vars

(* With the city pending for rs_search, "cara klaim" was answered with the  *)
(* question for the city again.                                             *)
C23_Witness ==
  /\ pc = "end"
  /\ memo0.pending_slot = "kota"
  /\ memo0.last_intent = "rs_search"
  /\ state.user_query = "cara klaim"
  /\ state.intent = "rs_search"
  /\ state.decision.status = "NEED_INPUT"
  /\ state.decision.need = <<"kota">>
  /\ memo.pending_slot = "kota"

(* The routing table of the graph, by intent and missing fields. *)
NodeAfterRequirements(intent, missing) ==
  CASE missing /= <<>> -> "decision"
    [] missing = <<>> /\ intent = "rs_search" -> "rs"
    [] missing = <<>> /\ intent = "policy_status" -> "nasabah"
    [] missing = <<>> /\ intent = "policy_plan_lookup" -> "nasabah"
    [] missing = <<>> /\ intent = "cashless_policy" -> "nasabah"
    [] missing = <<>> /\ intent = "limit_plan" -> "polis"
    [] missing = <<>> /\ intent = "claim_requirements" -> "polis"
    [] missing = <<>> /\ intent = "plan_benefit" -> "polis"
    [] missing = <<>> /\ intent = "provide_policy_number" -> "decision"
    [] missing = <<>> /\ intent = "unknown" -> "decision"

(* C24: the node executed after requirements is a function of intent and   *)
(* missing_fields only: decision when a field is missing; otherwise rs for  *)
(* rs_search, nasabah for policy_status, policy_plan_lookup and             *)
(* cashless_policy, polis for limit_plan, claim_requirements and            *)
(* plan_benefit, and decision for provide_policy_number and unknown.        *)
C24_RouteByIntentAndMissing ==
  /\ (Len(visited) = 2 /\ visited[2] = "requirements") =>
       pc = NodeAfterRequirements(state.intent, state.missing_fields)
  /\ (Len(visited) >= 3 /\ visited[2] = "requirements") =>
       visited[3] = NodeAfterRequirements(state.intent, state.missing_fields)

(* A plan_benefit turn with its plan tier is at the policy-document lookup. *)
C24_Witness ==
  /\ visited = <<"supervisor", "requirements">>
  /\ state.intent = "plan_benefit"
  /\ state.missing_fields = <<>>
  /\ pc = "polis"

(* The complete paths of the graph. *)
FullPaths ==
  {<<"supervisor", "requirements", "decision", "compose">>}
    \cup {<<"supervisor", "requirements", l, "decision", "compose">> : l \in LOOKUP_NODES}

IsPrefixOf(v, p) == Len(v) <= Len(p) /\ \A i \in 1..Len(v) : v[i] = p[i]

GRAPH_NODES == {"supervisor", "requirements", "rs", "nasabah", "polis", "decision", "compose"}

(* The nodes run so far, and the node due next, follow one complete path;   *)
(* a turn that has ended ran a complete path.                               *)
VisitsInOrder ==
  /\ \E p \in FullPaths : IsPrefixOf(visited, p)
  /\ pc \in GRAPH_NODES => \E p \in FullPaths : IsPrefixOf(Append(visited, pc), p)
  /\ \A i, j \in 1..Len(visited) : i /= j => visited[i] /= visited[j]
  /\ pc = "end" => visited \in FullPaths

(* C25: every turn in which no node raises terminates: it visits            *)
(* supervisor, requirements, at most one of rs, nasabah and polis,          *)
(* decision and compose, in that order, no node twice, and ends after       *)
(* compose.                                                                 *)
C25_TurnTerminates ==
  /\ []VisitsInOrder
  /\ (pc = "supervisor") ~> (pc \in {"end", "failed"})

(* A turn ended after the customer-record lookup. *)
C25_Witness ==
  /\ pc = "end"
  /\ visited = <<"supervisor", "requirements", "nasabah", "decision", "compose">>

(* Session memories that differ from the current one in the plan kept for   *)
(* display, the topics and the stored slots.                                *)
OtherMemos ==
  {[memo EXCEPT !.pending_plan_for_benefit = p, !.topics = t, !.kota = k] :
     p \in {None, "Gold", "Silver"}, t \in {<<>>, <<"Cashless">>}, k \in {None, "Jakarta"}}

(* The decision does not depend on the Session Memory. *)
DecisionIgnoresMemo ==
  pc = "decision" =>
    \A m2 \in OtherMemos, today \in Todays :
      DecisionOf(state, m2, today).decision = DecisionOf(state, memo, today).decision

(* C26: decision_node is a pure function of intent and turn state: running  *)
(* it leaves the Session Memory unchanged, and the same intent and turn     *)
(* state give the same decision under different Session Memories.           *)
C26_DecisionIsPure ==
  /\ [][pc = "decision" => memo' = memo]_vars
  /\ []DecisionIgnoresMemo

(* Number of queries the turn has issued to a store. *)
QueriesTo(store) == Cardinality({i \in 1..Len(calls) : calls[i].store = store})

(* C27: apart from the exact-then-semantic fallback of the customer-record  *)
(* lookup, every external store is queried at most once per turn; a turn of *)
(* limit_plan, plan_benefit or claim_requirements with nothing missing      *)
(* issues exactly one query to the policy-document store.                   *)
C27_SingleQueryPerStore ==
  /\ QueriesTo("polis") <= 1
  /\ QueriesTo("rs_rekanan") <= 1
  /\ (/\ pc \in {"decision", "compose", "end"}
      /\ state.intent \in {"limit_plan", "plan_benefit", "claim_requirements"}
      /\ state.missing_fields = <<>>)
     => QueriesTo("polis") = 1

(* The topic decision_node records for an intent. *)
TopicOf(intent) ==
  CASE intent = "policy_status" -> "Status polis"
    [] intent = "policy_plan_lookup" -> "Plan polis"
    [] intent = "cashless_policy" -> "Cashless"
    [] intent = "rs_search" -> "RS rekanan"

(* C28: the topic list has at most 10 entries and is ordered                *)
(* most-recent-last: after a turn that reached a lookup decision its topic  *)
(* is the last element of the list, also when an earlier turn had already   *)
(* recorded that topic.                                                     *)
C28_TopicsMostRecentLast ==
  /\ Len(memo.topics) <= 10
  /\ (/\ pc = "compose"
      /\ state.intent \in RECORD_INTENTS \cup {"rs_search"}
      /\ state.missing_fields = <<>>)
     => /\ memo.topics /= <<>>
        /\ memo.topics[Len(memo.topics)] = TopicOf(state.intent)

(* C29: after any sequence of remember calls chat_memory has at most        *)
(* 2 * MAX_TURNS = 10 entries and equals the most recent entries in append  *)
(* order: beyond the bound the oldest entries are the ones evicted.         *)
C29_TranscriptKeepsMostRecent ==
  pc = "remember" =>
    /\ Len(state.chat_memory) <= 10
    /\ Len(state.chat_memory) = (IF Len(state.said) <= 10 THEN Len(state.said) ELSE 10)
    /\ \A i \in 1..Len(state.chat_memory) :
         state.chat_memory[i] = state.said[Len(state.said) - Len(state.chat_memory) + i]

(* Twelve entries were remembered: the transcript holds the third to the    *)
(* twelfth.                                                                 *)
C29_Witness ==
  /\ pc = "remember"
  /\ Len(state.said) = 12
  /\ Len(state.chat_memory) = 10
  /\ state.chat_memory[1].content = 3
  /\ state.chat_memory[10].content = 12

(* The slot as the merge of utterance and Session Memory resolves it. *)
Merged(slot) == IF Truthy(Entities[slot]) THEN Entities[slot] ELSE memo0[slot]

(* C30: for no_polis and kota a turn resolves the value extracted from its  *)
(* utterance when there is one and the Session Memory value only when the   *)
(* utterance has none; the value from the utterance is written to Session   *)
(* Memory in that turn, whether or not the slot is the pending one.         *)
C30_UtteranceBeforeMemory ==
  pc \in {"requirements", "rs", "nasabah", "polis", "decision", "compose", "end", "failed"}
  => \A slot \in {"no_polis", "kota"} :
       /\ state[slot] = Merged(slot)
       /\ memo[slot] = Merged(slot)
       /\ Truthy(Entities[slot]) => (state[slot] = Entities[slot] /\ memo[slot] = Entities[slot])

(* While the policy number was pending, "di jakarta aja" was said: the city *)
(* is captured and stored, and the policy number is asked for again.        *)
C30_Witness ==
  /\ pc = "end"
  /\ memo0.pending_slot = "no_polis"
  /\ memo0.kota = None
  /\ state.user_query = "di jakarta aja"
  /\ state.kota = "Jakarta"
  /\ memo.kota = "Jakarta"
  /\ memo.pending_slot = "no_polis"

(***************************************************************************)
(* C31                                                                     *)
(***************************************************************************)
PENDING_SLOTS == {"kota", "no_polis", "plan_asked"}

(* No turn is running: before the first message, between two messages, or  *)
(* when app.invoke has just returned or raised.                             *)
TurnBoundary == pc \in {"idle", "end", "failed"}

(* The armed slot is the one field last_intent requires, and the memo has   *)
(* no value for it (the memo keeps no plan_asked).                          *)
PendingWellFormed ==
  /\ memo.pending_slot \in {None} \cup PENDING_SLOTS
  /\ memo.pending_slot /= None =>
       /\ required_fields(memo.last_intent) = <<memo.pending_slot>>
       /\ memo.pending_slot \in {"no_polis", "kota"} => ~Truthy(memo[memo.pending_slot])

(* The turn that armed the slot ended with NEED_INPUT for it; a turn that   *)
(* raised left nothing armed.                                               *)
ArmedByNeedInput ==
  /\ (pc = "end" /\ memo.pending_slot /= None) =>
       /\ state.decision.status = "NEED_INPUT"
       /\ state.decision.need = <<memo.pending_slot>>
  /\ (pc = "end" /\ memo.pending_slot = None) => state.decision.status /= "NEED_INPUT"
  /\ pc = "failed" => memo.pending_slot = None

(* C31: at every turn boundary of a session whose turns run one after the   *)
(* other, pending_slot is none or one of kota, no_polis, plan_asked; when   *)
(* armed it is the required slot of last_intent, the memo has no value for  *)
(* that slot, and the last decision was NEED_INPUT (the turn that ended     *)
(* armed it so, and nothing between two turns changes it, a closing message *)
(* included); missing_fields never has more than one element.               *)
C31_PendingSlotInvariant ==
  /\ [](TurnBoundary => PendingWellFormed)
  /\ []ArmedByNeedInput
  /\ [](Len(state.missing_fields) <= 1)
  /\ [][TurnBoundary => /\ memo'.pending_slot = memo.pending_slot
                        /\ memo'.last_intent = memo.last_intent
                        /\ memo'.no_polis = memo.no_polis
                        /\ memo'.kota = memo.kota]_vars

(* Between the second and the third message: the plan is pending for       *)
(* limit_plan after a turn that stored a city.                              *)
C31_Witness ==
  /\ pc = "idle"
  /\ turns = 2
  /\ memo.pending_slot = "plan_asked"
  /\ memo.last_intent = "limit_plan"
  /\ memo.kota = "Bandung"

(***************************************************************************)
(* C32                                                                     *)
(***************************************************************************)
POLICY_INTENTS == {"policy_status", "policy_plan_lookup", "cashless_policy"}

(* The decision of the running turn has been taken. *)
Decided == pc \in {"compose", "end"}

(* A slot the memo holds is not asked for. *)
CapturedNotAsked ==
  /\ Truthy(memo.no_polis) =>
       /\ memo.pending_slot /= "no_polis"
       /\ (Decided /\ state.intent \in POLICY_INTENTS) => state.decision.status /= "NEED_INPUT"
  /\ Truthy(memo.kota) =>
       /\ memo.pending_slot /= "kota"
       /\ (Decided /\ state.intent = "rs_search") => state.decision.status /= "NEED_INPUT"

(* C32: once the memo holds a policy number, no turn with intent           *)
(* policy_status, policy_plan_lookup or cashless_policy ends with          *)
(* NEED_INPUT and pending_slot is never no_polis again; once it holds a    *)
(* city, no rs_search turn ends with NEED_INPUT and pending_slot is never  *)
(* kota again; no step empties either value.                               *)
C32_CapturedSlotsStay ==
  /\ []CapturedNotAsked
  /\ [][/\ Truthy(memo.no_polis) => Truthy(memo'.no_polis)
        /\ Truthy(memo.kota) => Truthy(memo'.kota)]_vars

(* A later turn asks for the policy status without naming the number, and  *)
(* is answered from the number an earlier turn captured.                   *)
C32_Witness ==
  /\ pc = "end"
  /\ turns = 2
  /\ Truthy(memo0.no_polis)
  /\ ~Truthy(Entities.no_polis)
  /\ state.intent = "policy_status"
  /\ state.no_polis = memo0.no_polis
  /\ state.decision.status /= "NEED_INPUT"

(***************************************************************************)
(* C33                                                                     *)
(***************************************************************************)
RS_MODES == {"cashless", "non_cashless", "all"}

NON_CASHLESS_CUES ==
  {"gak cashless", "ga cashless", "tidak cashless", "non cashless",
   "reimburse", "reimbursement", "refund"}

(* The mode the utterance asks for, None when it has no cue. *)
CueOf(q) ==
  LET t == normalize_reimburse_words(q)
  IN  IF \E c \in NON_CASHLESS_CUES : Contains(t, c) THEN "non_cashless"
      ELSE IF Contains(t, "cashless") THEN "cashless"
      ELSE None

(* The supervisor of the running turn has returned. *)
SupervisorDone == pc \notin {"idle", "supervisor"}

(* The mode of the turn and the sticky mode are the cue's mode, or the      *)
(* sticky mode the turn started with when there is no cue.                  *)
ModeFollowsCue ==
  SupervisorDone =>
    LET cue == CueOf(state.user_query)
    IN  /\ state.rs_mode = (IF cue /= None THEN cue ELSE memo0.last_rs_mode)
        /\ memo.last_rs_mode = state.rs_mode
        /\ state.rs_mode \in RS_MODES

(* C33: last_rs_mode starts as all; a turn with a non-cashless cue sets it  *)
(* to non_cashless, even when the cue contains the word cashless, a turn    *)
(* with a bare cashless cue sets it to cashless, a turn with no cue uses    *)
(* it unchanged; once it has left all no step returns it to all; rs_mode    *)
(* of a turn and last_rs_mode are always cashless, non_cashless or all.     *)
C33_StickyRsMode ==
  /\ [](turns = 0 => memo.last_rs_mode = "all")
  /\ [](memo.last_rs_mode \in RS_MODES)
  /\ []ModeFollowsCue
  /\ [][memo.last_rs_mode /= "all" => memo'.last_rs_mode /= "all"]_vars

(* Third turn: "non cashless" switches the mode that the first turn set to  *)
(* cashless and the second, without a cue, kept.                            *)
C33_Witness ==
  /\ pc = "end"
  /\ turns = 3
  /\ memo0.last_rs_mode = "cashless"
  /\ last_set.rs_mode = "cashless"
  /\ state.user_query = "rumah sakit non cashless di medan"
  /\ state.rs_mode = "non_cashless"
  /\ memo.last_rs_mode = "non_cashless"

(***************************************************************************)
(* C34                                                                     *)
(***************************************************************************)
(* The step handles a closing message: a message was counted and the graph  *)
(* was not invoked.                                                         *)
ClosingStep ==
  /\ pc = "idle"
  /\ pc' = "idle"
  /\ turns' = turns + 1

(* The handling of a closing message leaves the slot memory alone, runs no  *)
(* node and adds to the transcript the message and the closing text.        *)
ClosingOnlyRecords ==
  ClosingStep =>
    /\ \A f \in MEMORY_FIELDS : memo'[f] = memo[f]
    /\ visited' = <<>> /\ calls' = <<>>
    /\ \E q \in ChatUtterances :
         /\ is_closing_message(q)
         /\ state'.messages = state.messages \o
                                <<Message("user", q), Message("assistant", CLOSING_TEXT)>>
         /\ state'.chat_memory = state.chat_memory \o
                                   <<Message("user", q), Message("assistant", CLOSING_TEXT)>>

(* The message before the one now handled was a closing message. *)
AfterClosing ==
  /\ Len(state.messages) >= 3
  /\ state.messages[Len(state.messages)].role = "user"
  /\ state.messages[Len(state.messages) - 1] = Message("assistant", CLOSING_TEXT)

(* A turn that follows a closing message, with a slot still armed that its  *)
(* utterance supplies, fills the slot, stores it and disarms it.            *)
ResumesAfterClosing ==
  (/\ pc \in {"requirements", "rs", "decision", "compose", "end"}
   /\ AfterClosing
   /\ memo0.pending_slot /= None
   /\ Mentions(state.user_query, memo0.pending_slot))
  => /\ SlotOf(state, memo0.pending_slot) = Entities[memo0.pending_slot]
     /\ memo0.pending_slot \in {"no_polis", "kota"} =>
          memo[memo0.pending_slot] = Entities[memo0.pending_slot]
     /\ memo.pending_slot = None

(* C34: a closing message is answered with the fixed closing text without   *)
(* running the pipeline; the slot memory is unchanged, so an armed          *)
(* pending_slot survives it and slot filling resumes on the next message    *)
(* that is not a closing one; only the transcript grows.                    *)
C34_ClosingKeepsMemo ==
  /\ [][ClosingOnlyRecords]_vars
  /\ []ResumesAfterClosing

(* The city was asked for, the user said thanks, then named the city: the   *)
(* third message fills the slot the first one armed.                        *)
C34_Witness ==
  /\ pc = "end"
  /\ turns = 3
  /\ AfterClosing
  /\ state.messages[2] = Message("user", "rumah sakit rekanan")
  /\ state.messages[4] = Message("user", "ok makasih")
  /\ state.user_query = "Bandung"
  /\ memo0.pending_slot = "kota"
  /\ state.kota = "Bandung"
  /\ memo.kota = "Bandung"
  /\ memo.pending_slot = None

(***************************************************************************)
(* C35                                                                     *)
(***************************************************************************)
(* The decision of a policy turn that has a policy number has been taken. *)
PolicyLookupDecided ==
  /\ Decided
  /\ state.intent \in POLICY_INTENTS
  /\ Truthy(state.no_polis)

(* Every variant of the number was queried, and every exact query missed   *)
(* or raised.                                                              *)
ExactAllFailed ==
  /\ \A v \in no_polis_variants(state.no_polis) :
       \E i \in 1..Len(calls) : calls[i].op = "scroll" /\ calls[i].arg = v
  /\ \A i \in 1..Len(calls) :
       calls[i].op = "scroll" => calls[i].out \in {"miss", "error"}

(* The semantic fallback was queried and raised or returned no record. *)
SemanticFailed ==
  \E i \in 1..Len(calls) :
    /\ calls[i].op = "query_points"
    /\ SemanticTop(calls[i].out) = Nil
    /\ calls[i].out \in {"error", "empty"}

(* C35: for policy_status, policy_plan_lookup and cashless_policy turns     *)
(* with a policy number, the decision is NOT_FOUND only when every exact    *)
(* variant query missed or raised and the semantic fallback raised or       *)
(* returned no record with a payload; whenever the fallback returns a       *)
(* record, that record is the customer of the turn and the decision is the  *)
(* one computed from it, whatever policy number it carries.                 *)
C35_NotFoundOnlyAfterFallback ==
  PolicyLookupDecided =>
    /\ state.decision.status = "NOT_FOUND" => (ExactAllFailed /\ SemanticFailed)
    /\ \A i \in 1..Len(calls) :
         (calls[i].op = "query_points" /\ SemanticTop(calls[i].out) /= Nil) =>
           /\ state.nasabah = SemanticTop(calls[i].out)
           /\ state.decision.status /= "NOT_FOUND"
           /\ \E today \in Todays :
                state.decision =
                  DecisionOf([state EXCEPT !.nasabah = SemanticTop(calls[i].out)],
                             memo, today).decision

(* "bisa cashless ab-1234": every exact query missed or raised, the nearest *)
(* record is the one of POL-2024, and the answer is that record's claim     *)
(* method.                                                                  *)
C35_Witness ==
  /\ TurnEnded
  /\ state.user_query = "bisa cashless ab-1234"
  /\ state.intent = "cashless_policy"
  /\ ExactAllFailed
  /\ calls[Len(calls)].op = "query_points"
  /\ calls[Len(calls)].out = "top1"
  /\ state.nasabah = NasabahStore[1]
  /\ Get(state.nasabah, "nomor_polis") \notin TriedSet
  /\ state.decision.status = "FOUND"

=============================================================================
